---- MODULE Spec2Model ----
(***************************************************************************)
(* Membership authorization and cross-aggregate consistency core of the    *)
(* user-service: OrganizationService / TeamService over the Organization,  *)
(* Team and User collections.                                              *)
(*                                                                         *)
(* Identifiers are the keys under which the store holds the documents; a   *)
(* lookup by id finds the document stored under that id.  Names are taken  *)
(* to be unique per request, so the natural-key conflict paths of Create   *)
(* and Update are not exercised.  Timestamps are not modelled.             *)
(***************************************************************************)
EXTENDS Integers, Sequences, FiniteSets, TLC

\* ------------------------------------------------------------------ bounds
\* number of facade calls in one run of the sequential specification
MaxOps == 4

\* ---------------------------------------------------------------- universe
UserIds == {"A", "B", "C", "D"}
\* the identities that issue, or are named in, the requests of Spec
Principals == {"A", "B", "C"}
OrgIds == {"o1"}
TeamIds == {"t1", "t2"}
Descriptions == {"d0", "d1"}
\* the address each identity registers with; requests of the facade carry it
EmailOf(u) == "mail-" \o u

None == "-"

OrgRoleOwner == "owner"
OrgRoleAdmin == "admin"
OrgRoleMember == "member"
OrgRoles == {OrgRoleOwner, OrgRoleAdmin, OrgRoleMember}

TeamRoleOwner == "owner"
TeamRoleAdmin == "admin"
TeamRoleMember == "member"
TeamRoleViewer == "viewer"
TeamRoles == {TeamRoleOwner, TeamRoleAdmin, TeamRoleMember, TeamRoleViewer}

StatusActive == "active"

\* ------------------------------------------------------------ error values
OK == "nil"
ErrNoDocuments == "mongo: no documents in result"
ErrOrgNotFound == "organization not found"
ErrTeamNotFound == "team not found"
ErrUserNotFound == "user not found"
ErrUserExists == "user with this userId already exists"
\* the error value of a store call that failed (network, timeout, server)
ErrStore == "store call failed"
ErrEmailExists == "user with this email already exists"
ErrNotOrgMember == "user is not a member of the organization"
ErrOrgUpdatePerm == "insufficient permissions to update organization"
ErrOrgDeletePerm == "insufficient permissions to delete organization"
ErrOrgAddPerm == "insufficient permissions to add organization member"
ErrOrgUpdMemberPerm == "insufficient permissions to update organization member"
ErrOrgOwnerOnly == "only an organization owner can change the role of another owner"
ErrOrgLastOwnerRole == "cannot change role: organization must have at least one owner"
ErrOrgMemberNotFound == "member not found in organization"
ErrOrgRemovePerm == "insufficient permissions to remove this organization member"
ErrOrgLastOwnerRemove == "cannot remove the only organization owner"
ErrTeamUpdatePerm == "insufficient permissions to update team"
ErrTeamDeletePerm == "insufficient permissions to delete team"
ErrTeamAddPerm == "insufficient permissions to add team member"
ErrTeamUpdMemberPerm == "insufficient permissions to update team member"
ErrTeamOwnerOnly == "only a team owner can change the role of another owner"
ErrTeamLastOwnerRole == "cannot change role: team must have at least one owner"
ErrTeamMemberNotFound == "member not found in team"
ErrTeamRemovePerm == "insufficient permissions to remove this team member"
ErrTeamLastOwnerRemove == "cannot remove the only team owner"
ErrTeamNotInOrg == "team not found in organization"
ErrInvalidData == "invalid data format"
ErrMissingFields == "missing required fields"

\* ------------------------------------------------------------ event types
UserCreated == "user.created"

\* orgs, teams, users: the three collections of the store
\* last, nops: the most recent facade call and the number of calls so far
\* procs: the facade calls in flight in the interleaved specification
\* scn: the position in, and the outcomes of, the scripted scenario
\* call: the facade call in progress in the specification with store failures
\* bus: the publish goroutines started and the messages handed to the producer
\* inbox: the messages of the subscribed topic and the consumer's position
\* repo: one group document with its members entries in full, and the clock
\* query: the list method called last and the store call it made
VARIABLES orgs, teams, users, last, nops, procs, scn, call, bus, inbox, repo, query

vars == <<orgs, teams, users, last, nops, procs, scn, call, bus, inbox, repo, query>>

\* --------------------------------------------------------------- documents
\* st: "absent" (never inserted), "live", "deleted" (ids are fresh uuids and
\* are never handed out twice)
AbsentOrg == [st |-> "absent", description |-> "d0", members |-> <<>>, teamIds |-> {}]
AbsentTeam == [st |-> "absent", description |-> "d0", organizationId |-> None, members |-> <<>>]
AbsentUser == [st |-> "absent", email |-> None, status |-> StatusActive,
               organizationIds |-> {}, teamIds |-> {}]

OrganizationMember(userID, role, invitedBy) ==
    [userId |-> userID, role |-> role, invitedBy |-> invitedBy]

TeamMember(userID, role, invitedBy) ==
    [userId |-> userID, role |-> role, invitedBy |-> invitedBy]

NewOrganization(createdBy) ==
    [st |-> "live", description |-> "d0",
     members |-> << OrganizationMember(createdBy, OrgRoleOwner, None) >>,
     teamIds |-> {}]

NewTeam(organizationID, createdBy) ==
    [st |-> "live", description |-> "d0", organizationId |-> organizationID,
     members |-> << TeamMember(createdBy, TeamRoleOwner, None) >>]

NewUser(email) ==
    [st |-> "live", email |-> email, status |-> StatusActive,
     organizationIds |-> {}, teamIds |-> {}]

\* ------------------------------------------------- members sequence helpers
\* position of the first entry for userID, 0 when there is none (nil)
GetMember(members, userID) ==
    IF \E i \in 1..Len(members) : members[i].userId = userID
    THEN CHOOSE i \in 1..Len(members) :
            /\ members[i].userId = userID
            /\ \A j \in 1..(i-1) : members[j].userId # userID
    ELSE 0

IsMember(members, userID) == GetMember(members, userID) # 0

\* variant: any membership entry passes, whatever its role
HasRole_AnyRole(members, userID, roles) ==
    GetMember(members, userID) # 0

HasRole(members, userID, roles) ==
    LET i == GetMember(members, userID)
    IN  i # 0 /\ members[i].role \in roles

\* the "count owners" loops of the services
OwnerCount(members) ==
    Cardinality({i \in 1..Len(members) : members[i].role = OrgRoleOwner})

\* $set members.$.role : the first entry for userID gets the role
SetFirstRole(members, userID, role) ==
    [i \in 1..Len(members) |->
        IF i = GetMember(members, userID)
        THEN [members[i] EXCEPT !.role = role]
        ELSE members[i]]

\* $pull members {userId: userID} : every entry for userID goes
PullMember(members, userID) ==
    SelectSeq(members, LAMBDA m : m.userId # userID)

\* ------------------------------------------------- OrganizationRepository
OrgRepoFound(orgsV, id) == id \in OrgIds /\ orgsV[id].st = "live"

OrgRepoCreate(orgsV, id, org) == [orgsV EXCEPT ![id] = org]

\* $set of the profile fields and of the whole members array
OrgRepoUpdate(orgsV, id, org) ==
    IF OrgRepoFound(orgsV, id)
    THEN [orgsV EXCEPT ![id].description = org.description,
                       ![id].members = org.members]
    ELSE orgsV

OrgRepoDelete(orgsV, id) ==
    IF OrgRepoFound(orgsV, id)
    THEN [orgsV EXCEPT ![id] = [AbsentOrg EXCEPT !.st = "deleted"]]
    ELSE orgsV

\* CountDocuments({_id, members.userId}) > 0
OrgRepoAddMemberExists(orgsV, orgID, userID) ==
    OrgRepoFound(orgsV, orgID) /\ IsMember(orgsV[orgID].members, userID)

\* UpdateOne({_id, members.userId}, $set members.$.role)
OrgRepoAddMemberSetRole(orgsV, orgID, userID, role) ==
    IF OrgRepoFound(orgsV, orgID) /\ IsMember(orgsV[orgID].members, userID)
    THEN [orgsV EXCEPT ![orgID].members = SetFirstRole(@, userID, role)]
    ELSE orgsV

\* UpdateOne({_id}, $push members)
OrgRepoAddMemberPush(orgsV, orgID, userID, role, invitedBy) ==
    IF OrgRepoFound(orgsV, orgID)
    THEN [orgsV EXCEPT ![orgID].members =
                Append(@, OrganizationMember(userID, role, invitedBy))]
    ELSE orgsV

\* variant: the $push without the existence query
OrgRepoAddMember_AlwaysPush(orgsV, orgID, userID, role, invitedBy) ==
    OrgRepoAddMemberPush(orgsV, orgID, userID, role, invitedBy)

OrgRepoAddMember(orgsV, orgID, userID, role, invitedBy) ==
    IF OrgRepoAddMemberExists(orgsV, orgID, userID)
    THEN OrgRepoAddMemberSetRole(orgsV, orgID, userID, role)
    ELSE OrgRepoAddMemberPush(orgsV, orgID, userID, role, invitedBy)

\* $pull + $set updatedAt: ModifiedCount is 0 only when no document matched
OrgRepoRemoveMember(orgsV, orgID, userID) ==
    IF OrgRepoFound(orgsV, orgID)
    THEN [err |-> OK,
          orgs |-> [orgsV EXCEPT ![orgID].members = PullMember(@, userID)]]
    ELSE [err |-> ErrOrgMemberNotFound, orgs |-> orgsV]

OrgRepoAddTeam(orgsV, orgID, teamID) ==
    IF OrgRepoFound(orgsV, orgID)
    THEN [orgsV EXCEPT ![orgID].teamIds = @ \cup {teamID}]
    ELSE orgsV

OrgRepoRemoveTeam(orgsV, orgID, teamID) ==
    IF OrgRepoFound(orgsV, orgID)
    THEN [err |-> OK, orgs |-> [orgsV EXCEPT ![orgID].teamIds = @ \ {teamID}]]
    ELSE [err |-> ErrTeamNotInOrg, orgs |-> orgsV]

\* --------------------------------------------------------- TeamRepository
TeamRepoFound(teamsV, id) == id \in TeamIds /\ teamsV[id].st = "live"

TeamRepoCreate(teamsV, id, team) == [teamsV EXCEPT ![id] = team]

TeamRepoUpdate(teamsV, id, team) ==
    IF TeamRepoFound(teamsV, id)
    THEN [teamsV EXCEPT ![id].description = team.description,
                        ![id].members = team.members]
    ELSE teamsV

TeamRepoDelete(teamsV, id) ==
    IF TeamRepoFound(teamsV, id)
    THEN [teamsV EXCEPT ![id] = [AbsentTeam EXCEPT !.st = "deleted"]]
    ELSE teamsV

TeamRepoAddMemberExists(teamsV, teamID, userID) ==
    TeamRepoFound(teamsV, teamID) /\ IsMember(teamsV[teamID].members, userID)

TeamRepoAddMemberSetRole(teamsV, teamID, userID, role) ==
    IF TeamRepoFound(teamsV, teamID) /\ IsMember(teamsV[teamID].members, userID)
    THEN [teamsV EXCEPT ![teamID].members = SetFirstRole(@, userID, role)]
    ELSE teamsV

TeamRepoAddMemberPush(teamsV, teamID, userID, role, invitedBy) ==
    IF TeamRepoFound(teamsV, teamID)
    THEN [teamsV EXCEPT ![teamID].members =
                Append(@, TeamMember(userID, role, invitedBy))]
    ELSE teamsV

TeamRepoAddMember(teamsV, teamID, userID, role, invitedBy) ==
    IF TeamRepoAddMemberExists(teamsV, teamID, userID)
    THEN TeamRepoAddMemberSetRole(teamsV, teamID, userID, role)
    ELSE TeamRepoAddMemberPush(teamsV, teamID, userID, role, invitedBy)

TeamRepoRemoveMember(teamsV, teamID, userID) ==
    IF TeamRepoFound(teamsV, teamID)
    THEN [err |-> OK,
          teams |-> [teamsV EXCEPT ![teamID].members = PullMember(@, userID)]]
    ELSE [err |-> ErrTeamMemberNotFound, teams |-> teamsV]

\* --------------------------------------------------------- UserRepository
UserRepoFound(usersV, userId) == userId \in UserIds /\ usersV[userId].st = "live"

\* GetByEmail: some document carries the email
UserRepoEmailFound(usersV, email) ==
    \E u \in UserIds : usersV[u].st = "live" /\ usersV[u].email = email

UserRepoCreate(usersV, userId, email) ==
    IF UserRepoFound(usersV, userId)
    THEN [err |-> ErrUserExists, users |-> usersV]
    ELSE IF UserRepoEmailFound(usersV, email)
    THEN [err |-> ErrEmailExists, users |-> usersV]
    ELSE [err |-> OK, users |-> [usersV EXCEPT ![userId] = NewUser(email)]]

\* UpdateOne({userId}, $addToSet / $pull): no document matched is no error
AddOrganizationToUser(usersV, userId, organizationId) ==
    IF UserRepoFound(usersV, userId)
    THEN [usersV EXCEPT ![userId].organizationIds = @ \cup {organizationId}]
    ELSE usersV

RemoveOrganizationFromUser(usersV, userId, organizationId) ==
    IF UserRepoFound(usersV, userId)
    THEN [usersV EXCEPT ![userId].organizationIds = @ \ {organizationId}]
    ELSE usersV

AddTeamToUser(usersV, userId, teamId) ==
    IF UserRepoFound(usersV, userId)
    THEN [usersV EXCEPT ![userId].teamIds = @ \cup {teamId}]
    ELSE usersV

RemoveTeamFromUser(usersV, userId, teamId) ==
    IF UserRepoFound(usersV, userId)
    THEN [usersV EXCEPT ![userId].teamIds = @ \ {teamId}]
    ELSE usersV

\* the "for _, member := range Members" loops over a repository call
RemoveOrganizationFromUsers(usersV, memberIds, organizationId) ==
    [u \in UserIds |->
        IF u \in memberIds /\ UserRepoFound(usersV, u)
        THEN [usersV[u] EXCEPT !.organizationIds = @ \ {organizationId}]
        ELSE usersV[u]]

RemoveTeamFromUsers(usersV, memberIds, teamId) ==
    [u \in UserIds |->
        IF u \in memberIds /\ UserRepoFound(usersV, u)
        THEN [usersV[u] EXCEPT !.teamIds = @ \ {teamId}]
        ELSE usersV[u]]

MemberIds(members) == {members[i].userId : i \in 1..Len(members)}

\* ---------------------------------------------------- service call results
\* a facade call maps the store to an error value and the store it leaves
Res(e, orgsV, teamsV, usersV) ==
    [err |-> e, orgs |-> orgsV, teams |-> teamsV, users |-> usersV]

\* ---------------------------------------------------- OrganizationService
CreateOrganization(orgsV, teamsV, usersV, id, createdBy) ==
    LET orgs1 == OrgRepoCreate(orgsV, id, NewOrganization(createdBy))
        users1 == AddOrganizationToUser(usersV, createdBy, id)
    IN  Res(OK, orgs1, teamsV, users1)

UpdateOrganization(orgsV, teamsV, usersV, id, description, userID) ==
    IF ~OrgRepoFound(orgsV, id)
    THEN Res(ErrOrgNotFound, orgsV, teamsV, usersV)
    ELSE LET org == orgsV[id] IN
         IF ~HasRole(org.members, userID, {OrgRoleOwner, OrgRoleAdmin})
         THEN Res(ErrOrgUpdatePerm, orgsV, teamsV, usersV)
         ELSE Res(OK,
                  OrgRepoUpdate(orgsV, id, [org EXCEPT !.description = description]),
                  teamsV, usersV)

DeleteOrganization(orgsV, teamsV, usersV, id, userID) ==
    IF ~OrgRepoFound(orgsV, id)
    THEN Res(ErrOrgNotFound, orgsV, teamsV, usersV)
    ELSE LET org == orgsV[id] IN
         IF ~HasRole(org.members, userID, {OrgRoleOwner})
         THEN Res(ErrOrgDeletePerm, orgsV, teamsV, usersV)
         ELSE LET teams1 == [t \in TeamIds |->
                                IF t \in org.teamIds
                                THEN TeamRepoDelete(teamsV, t)[t]
                                ELSE teamsV[t]]
                  orgs1 == OrgRepoDelete(orgsV, id)
                  users1 == RemoveOrganizationFromUsers(usersV, MemberIds(org.members), id)
              IN  Res(OK, orgs1, teams1, users1)

AddOrganizationMember(orgsV, teamsV, usersV, orgID, userID, role, invitedBy) ==
    IF ~OrgRepoFound(orgsV, orgID)
    THEN Res(ErrOrgNotFound, orgsV, teamsV, usersV)
    ELSE LET org == orgsV[orgID] IN
         IF ~HasRole(org.members, invitedBy, {OrgRoleOwner, OrgRoleAdmin})
         THEN Res(ErrOrgAddPerm, orgsV, teamsV, usersV)
         ELSE IF ~UserRepoFound(usersV, userID)
         THEN Res(ErrUserNotFound, orgsV, teamsV, usersV)
         ELSE Res(OK,
                  OrgRepoAddMember(orgsV, orgID, userID, role, invitedBy),
                  teamsV,
                  AddOrganizationToUser(usersV, userID, orgID))

\* variant: the checks without the owner count
UpdateOrganizationMemberCheck_NoOwnerCount(org, memberID, role, updatedBy) ==
    LET currentMember == GetMember(org.members, memberID) IN
    IF ~HasRole(org.members, updatedBy, {OrgRoleOwner, OrgRoleAdmin})
    THEN ErrOrgUpdMemberPerm
    ELSE IF /\ currentMember # 0
            /\ org.members[currentMember].role = OrgRoleOwner
            /\ ~HasRole(org.members, updatedBy, {OrgRoleOwner})
    THEN ErrOrgOwnerOnly
    ELSE OK

\* the checks of UpdateOrganizationMember before its write: the error they
\* return, OK when they all pass
UpdateOrganizationMemberCheck(org, memberID, role, updatedBy) ==
    LET currentMember == GetMember(org.members, memberID) IN
    IF ~HasRole(org.members, updatedBy, {OrgRoleOwner, OrgRoleAdmin})
    THEN ErrOrgUpdMemberPerm
    ELSE IF /\ currentMember # 0
            /\ org.members[currentMember].role = OrgRoleOwner
            /\ ~HasRole(org.members, updatedBy, {OrgRoleOwner})
    THEN ErrOrgOwnerOnly
    ELSE IF /\ memberID = updatedBy
            /\ org.members[currentMember].role = OrgRoleOwner
            /\ role # OrgRoleOwner
            /\ OwnerCount(org.members) <= 1
    THEN ErrOrgLastOwnerRole
    ELSE OK

UpdateOrganizationMember(orgsV, teamsV, usersV, orgID, memberID, role, updatedBy) ==
    IF ~OrgRepoFound(orgsV, orgID)
    THEN Res(ErrOrgNotFound, orgsV, teamsV, usersV)
    ELSE LET e == UpdateOrganizationMemberCheck(orgsV[orgID], memberID, role, updatedBy) IN
         IF e # OK
         THEN Res(e, orgsV, teamsV, usersV)
         ELSE Res(OK,
                  OrgRepoAddMember(orgsV, orgID, memberID, role, updatedBy),
                  teamsV, usersV)

\* the checks of RemoveOrganizationMember before its write
RemoveOrganizationMemberCheck(org, memberID, removedBy) ==
    LET memberToRemove == GetMember(org.members, memberID)
        isOwner == HasRole(org.members, removedBy, {OrgRoleOwner})
        isAdmin == HasRole(org.members, removedBy, {OrgRoleAdmin})
        isSelf == removedBy = memberID
    IN
    IF memberToRemove = 0
    THEN ErrOrgMemberNotFound
    ELSE IF /\ ~isOwner
            /\ ~isSelf
            /\ \/ org.members[memberToRemove].role = OrgRoleOwner
               \/ (~isAdmin /\ org.members[memberToRemove].role = OrgRoleAdmin)
    THEN ErrOrgRemovePerm
    ELSE IF /\ org.members[memberToRemove].role = OrgRoleOwner
            /\ OwnerCount(org.members) <= 1
    THEN ErrOrgLastOwnerRemove
    ELSE OK

RemoveOrganizationMember(orgsV, teamsV, usersV, orgID, memberID, removedBy) ==
    IF ~OrgRepoFound(orgsV, orgID)
    THEN Res(ErrOrgNotFound, orgsV, teamsV, usersV)
    ELSE LET e == RemoveOrganizationMemberCheck(orgsV[orgID], memberID, removedBy) IN
         IF e # OK
         THEN Res(e, orgsV, teamsV, usersV)
         ELSE LET r == OrgRepoRemoveMember(orgsV, orgID, memberID) IN
              IF r.err # OK
              THEN Res(r.err, orgsV, teamsV, usersV)
              ELSE Res(OK, r.orgs, teamsV,
                       RemoveOrganizationFromUser(usersV, memberID, orgID))

\* ------------------------------------------------------------- TeamService
CreateTeam(orgsV, teamsV, usersV, id, organizationID, createdBy) ==
    IF ~OrgRepoFound(orgsV, organizationID)
    THEN Res(ErrOrgNotFound, orgsV, teamsV, usersV)
    ELSE IF ~IsMember(orgsV[organizationID].members, createdBy)
    THEN Res(ErrNotOrgMember, orgsV, teamsV, usersV)
    ELSE Res(OK,
             OrgRepoAddTeam(orgsV, organizationID, id),
             TeamRepoCreate(teamsV, id, NewTeam(organizationID, createdBy)),
             AddTeamToUser(usersV, createdBy, id))

UpdateTeam(orgsV, teamsV, usersV, id, description, userID) ==
    IF ~TeamRepoFound(teamsV, id)
    THEN Res(ErrTeamNotFound, orgsV, teamsV, usersV)
    ELSE LET team == teamsV[id] IN
         IF ~HasRole(team.members, userID, {TeamRoleOwner, TeamRoleAdmin})
         THEN Res(ErrTeamUpdatePerm, orgsV, teamsV, usersV)
         ELSE Res(OK, orgsV,
                  TeamRepoUpdate(teamsV, id, [team EXCEPT !.description = description]),
                  usersV)

\* variant: the team's id stays in the members' teamIds
DeleteTeam_KeepsUserRefs(orgsV, teamsV, usersV, id, userID) ==
    IF ~TeamRepoFound(teamsV, id)
    THEN Res(ErrTeamNotFound, orgsV, teamsV, usersV)
    ELSE LET team == teamsV[id] IN
         IF ~HasRole(team.members, userID, {TeamRoleOwner})
         THEN Res(ErrTeamDeletePerm, orgsV, teamsV, usersV)
         ELSE Res(OK,
                  OrgRepoRemoveTeam(orgsV, team.organizationId, id).orgs,
                  TeamRepoDelete(teamsV, id),
                  usersV)

DeleteTeam(orgsV, teamsV, usersV, id, userID) ==
    IF ~TeamRepoFound(teamsV, id)
    THEN Res(ErrTeamNotFound, orgsV, teamsV, usersV)
    ELSE LET team == teamsV[id] IN
         IF ~HasRole(team.members, userID, {TeamRoleOwner})
         THEN Res(ErrTeamDeletePerm, orgsV, teamsV, usersV)
         ELSE Res(OK,
                  OrgRepoRemoveTeam(orgsV, team.organizationId, id).orgs,
                  TeamRepoDelete(teamsV, id),
                  RemoveTeamFromUsers(usersV, MemberIds(team.members), id))

AddTeamMember(orgsV, teamsV, usersV, teamID, userID, role, invitedBy) ==
    IF ~TeamRepoFound(teamsV, teamID)
    THEN Res(ErrTeamNotFound, orgsV, teamsV, usersV)
    ELSE LET team == teamsV[teamID] IN
         IF ~HasRole(team.members, invitedBy, {TeamRoleOwner, TeamRoleAdmin})
         THEN Res(ErrTeamAddPerm, orgsV, teamsV, usersV)
         ELSE IF ~UserRepoFound(usersV, userID)
         THEN Res(ErrUserNotFound, orgsV, teamsV, usersV)
         ELSE IF ~OrgRepoFound(orgsV, team.organizationId)
         THEN Res(ErrNoDocuments, orgsV, teamsV, usersV)
         ELSE IF ~IsMember(orgsV[team.organizationId].members, userID)
         THEN Res(ErrNotOrgMember, orgsV, teamsV, usersV)
         ELSE Res(OK, orgsV,
                  TeamRepoAddMember(teamsV, teamID, userID, role, invitedBy),
                  AddTeamToUser(usersV, userID, teamID))

\* the checks of UpdateTeamMember before its write
UpdateTeamMemberCheck(team, memberID, role, updatedBy) ==
    LET currentMember == GetMember(team.members, memberID) IN
    IF ~HasRole(team.members, updatedBy, {TeamRoleOwner, TeamRoleAdmin})
    THEN ErrTeamUpdMemberPerm
    ELSE IF /\ currentMember # 0
            /\ team.members[currentMember].role = TeamRoleOwner
            /\ ~HasRole(team.members, updatedBy, {TeamRoleOwner})
    THEN ErrTeamOwnerOnly
    ELSE IF /\ memberID = updatedBy
            /\ team.members[currentMember].role = TeamRoleOwner
            /\ role # TeamRoleOwner
            /\ OwnerCount(team.members) <= 1
    THEN ErrTeamLastOwnerRole
    ELSE OK

UpdateTeamMember(orgsV, teamsV, usersV, teamID, memberID, role, updatedBy) ==
    IF ~TeamRepoFound(teamsV, teamID)
    THEN Res(ErrTeamNotFound, orgsV, teamsV, usersV)
    ELSE LET e == UpdateTeamMemberCheck(teamsV[teamID], memberID, role, updatedBy) IN
         IF e # OK
         THEN Res(e, orgsV, teamsV, usersV)
         ELSE Res(OK, orgsV,
                  TeamRepoAddMember(teamsV, teamID, memberID, role, updatedBy),
                  usersV)

\* the checks of RemoveTeamMember before its write
RemoveTeamMemberCheck(team, memberID, removedBy) ==
    LET memberToRemove == GetMember(team.members, memberID)
        isOwner == HasRole(team.members, removedBy, {TeamRoleOwner})
        isAdmin == HasRole(team.members, removedBy, {TeamRoleAdmin})
        isSelf == removedBy = memberID
    IN
    IF memberToRemove = 0
    THEN ErrTeamMemberNotFound
    ELSE IF /\ ~isOwner
            /\ ~isSelf
            /\ \/ team.members[memberToRemove].role = TeamRoleOwner
               \/ (~isAdmin /\ team.members[memberToRemove].role = TeamRoleAdmin)
    THEN ErrTeamRemovePerm
    ELSE IF /\ team.members[memberToRemove].role = TeamRoleOwner
            /\ OwnerCount(team.members) <= 1
    THEN ErrTeamLastOwnerRemove
    ELSE OK

RemoveTeamMember(orgsV, teamsV, usersV, teamID, memberID, removedBy) ==
    IF ~TeamRepoFound(teamsV, teamID)
    THEN Res(ErrTeamNotFound, orgsV, teamsV, usersV)
    ELSE LET e == RemoveTeamMemberCheck(teamsV[teamID], memberID, removedBy) IN
         IF e # OK
         THEN Res(e, orgsV, teamsV, usersV)
         ELSE LET r == TeamRepoRemoveMember(teamsV, teamID, memberID) IN
              IF r.err # OK
              THEN Res(r.err, orgsV, teamsV, usersV)
              ELSE Res(OK, orgsV, r.teams,
                       RemoveTeamFromUser(usersV, memberID, teamID))

\* ------------------------------------------------------------- UserService
\* CreateUser / ProcessAuthUserCreated: the User aggregate of an identity
CreateUser(orgsV, teamsV, usersV, userId, email) ==
    LET r == UserRepoCreate(usersV, userId, email)
    IN  Res(r.err, orgsV, teamsV, r.users)

\* ------------------------------------------------------------------- state
\* last: the most recent facade call and the error value it returned
NoCall == [op |-> None, gid |-> None, actor |-> None, target |-> None,
           role |-> None, err |-> OK]

ProcIds == {"p1", "p2"}

IdleProc == [pc |-> "idle", op |-> None, gid |-> None, actor |-> None,
             target |-> None, role |-> None, exists |-> FALSE, members |-> <<>>,
             err |-> OK]

NoScenario == [pc |-> 0, a |-> None, b |-> None, c |-> None, d |-> None,
               o |-> None, res |-> <<>>]

\* the group document a handler holds for its event: nil after a failed
\* GetByID, and otherwise the members it was read with
NilDoc == [nil |-> TRUE, members |-> <<>>]
LoadedDoc(members) == [nil |-> FALSE, members |-> members]

\* no facade call begun in the specification with store failures
NoFacadeCall == [pc |-> "idle", n |-> 0, op |-> None, gid |-> None,
                 actor |-> None, target |-> None, role |-> None,
                 todo |-> <<>>, log |-> <<>>, doc |-> NilDoc, err |-> OK]

\* repo: one group document with its members entries in full (userId, role,
\* joinedAt, invitedBy) and its updatedAt, and the clock time.Now() reads
\* query: the list method called last, the page and limit it was given and
\* the page and limit of the store call it made, if it made one
NoQuery ==
    [op |-> None, page |-> 1, limit |-> 1, called |-> FALSE,
     storePage |-> 1, storeLimit |-> 1]

\* op, arg, matched: the repository call made last, its arguments, and
\* whether its filter matched an entry
NoArg == [userId |-> None, role |-> None, invitedBy |-> None]

NoDocument ==
    [members |-> <<>>, updatedAt |-> 0, now |-> 0, op |-> None, arg |-> NoArg,
     matched |-> FALSE]

\* spawned: the publish goroutines started and not yet run
\* produced: the messages handed to the producer, each with the call that
\* started its goroutine and the outcome of Produce
EmptyBus == [spawned |-> {}, produced |-> {}]

\* msgs: the messages the topic delivers, in order; pos: how many of them the
\* consumer has read; handled: the outcome of the handler for each one read
NoInbox == [msgs |-> <<>>, pos |-> 0, handled |-> <<>>]

EmptyOrgs == [o \in OrgIds |-> AbsentOrg]
EmptyTeams == [t \in TeamIds |-> AbsentTeam]
EmptyUsers == [u \in UserIds |-> AbsentUser]

Init ==
    /\ orgs = EmptyOrgs
    /\ teams = EmptyTeams
    /\ users = EmptyUsers
    /\ last = NoCall
    /\ nops = 0
    /\ procs = [p \in ProcIds |-> IdleProc]
    /\ scn = NoScenario
    /\ call = NoFacadeCall
    /\ bus = EmptyBus
    /\ inbox = NoInbox
    /\ query = NoQuery
    /\ repo = NoDocument

\* one facade call run to completion; a call that returns an error has
\* written nothing (its result leaves the store as it was) and is no step
Call(op, gid, actor, target, role, r) ==
    /\ r.err = OK
    /\ orgs' = r.orgs
    /\ teams' = r.teams
    /\ users' = r.users
    /\ last' = [op |-> op, gid |-> gid, actor |-> actor, target |-> target,
                role |-> role, err |-> r.err]
    /\ nops' = nops + 1
    /\ UNCHANGED <<procs, scn, call, bus, inbox, repo, query>>

CallCreateUser ==
    /\ nops < MaxOps
    /\ \E u \in Principals :
           Call("CreateUser", None, None, u, None,
                CreateUser(orgs, teams, users, u, EmailOf(u)))

CallCreateOrganization ==
    /\ nops < MaxOps
    /\ \E id \in OrgIds, createdBy \in Principals :
           /\ orgs[id].st = "absent"
           /\ Call("CreateOrganization", id, createdBy, None, None,
                   CreateOrganization(orgs, teams, users, id, createdBy))

CallUpdateOrganization ==
    /\ nops < MaxOps
    /\ \E id \in OrgIds, d \in Descriptions, userID \in Principals :
           Call("UpdateOrganization", id, userID, None, None,
                UpdateOrganization(orgs, teams, users, id, d, userID))

CallDeleteOrganization ==
    /\ nops < MaxOps
    /\ \E id \in OrgIds, userID \in Principals :
           Call("DeleteOrganization", id, userID, None, None,
                DeleteOrganization(orgs, teams, users, id, userID))

CallAddOrganizationMember ==
    /\ nops < MaxOps
    /\ \E orgID \in OrgIds, userID \in Principals, role \in OrgRoles, invitedBy \in Principals :
           Call("AddOrganizationMember", orgID, invitedBy, userID, role,
                AddOrganizationMember(orgs, teams, users, orgID, userID, role, invitedBy))

CallUpdateOrganizationMember ==
    /\ nops < MaxOps
    /\ \E orgID \in OrgIds, memberID \in Principals, role \in OrgRoles, updatedBy \in Principals :
           Call("UpdateOrganizationMember", orgID, updatedBy, memberID, role,
                UpdateOrganizationMember(orgs, teams, users, orgID, memberID, role, updatedBy))

CallRemoveOrganizationMember ==
    /\ nops < MaxOps
    /\ \E orgID \in OrgIds, memberID \in Principals, removedBy \in Principals :
           Call("RemoveOrganizationMember", orgID, removedBy, memberID, None,
                RemoveOrganizationMember(orgs, teams, users, orgID, memberID, removedBy))

CallCreateTeam ==
    /\ nops < MaxOps
    /\ \E id \in TeamIds, organizationID \in OrgIds, createdBy \in Principals :
           /\ teams[id].st = "absent"
           /\ Call("CreateTeam", id, createdBy, None, None,
                   CreateTeam(orgs, teams, users, id, organizationID, createdBy))

CallUpdateTeam ==
    /\ nops < MaxOps
    /\ \E id \in TeamIds, d \in Descriptions, userID \in Principals :
           Call("UpdateTeam", id, userID, None, None,
                UpdateTeam(orgs, teams, users, id, d, userID))

CallDeleteTeam ==
    /\ nops < MaxOps
    /\ \E id \in TeamIds, userID \in Principals :
           Call("DeleteTeam", id, userID, None, None,
                DeleteTeam(orgs, teams, users, id, userID))

CallAddTeamMember ==
    /\ nops < MaxOps
    /\ \E teamID \in TeamIds, userID \in Principals, role \in TeamRoles, invitedBy \in Principals :
           Call("AddTeamMember", teamID, invitedBy, userID, role,
                AddTeamMember(orgs, teams, users, teamID, userID, role, invitedBy))

CallUpdateTeamMember ==
    /\ nops < MaxOps
    /\ \E teamID \in TeamIds, memberID \in Principals, role \in TeamRoles, updatedBy \in Principals :
           Call("UpdateTeamMember", teamID, updatedBy, memberID, role,
                UpdateTeamMember(orgs, teams, users, teamID, memberID, role, updatedBy))

CallRemoveTeamMember ==
    /\ nops < MaxOps
    /\ \E teamID \in TeamIds, memberID \in Principals, removedBy \in Principals :
           Call("RemoveTeamMember", teamID, removedBy, memberID, None,
                RemoveTeamMember(orgs, teams, users, teamID, memberID, removedBy))

Next ==
    \/ CallCreateUser
    \/ CallCreateOrganization
    \/ CallUpdateOrganization
    \/ CallDeleteOrganization
    \/ CallAddOrganizationMember
    \/ CallUpdateOrganizationMember
    \/ CallRemoveOrganizationMember
    \/ CallCreateTeam
    \/ CallUpdateTeam
    \/ CallDeleteTeam
    \/ CallAddTeamMember
    \/ CallUpdateTeamMember
    \/ CallRemoveTeamMember

Spec == Init /\ [][Next]_vars

\* ------------------------------------------------------ scripted scenario
\* the User collection after CreateUser for every identity
AllUsersCreated ==
    [u \in UserIds |-> NewUser(EmailOf(u))]

\* four distinct users a, b, c, d and an organization id o are chosen; the
\* steps then run the facade calls of the scenario in order, recording the
\* error value of each
InitScenario ==
    /\ orgs = EmptyOrgs
    /\ teams = EmptyTeams
    /\ users = AllUsersCreated
    /\ last = NoCall
    /\ nops = 0
    /\ procs = [p \in ProcIds |-> IdleProc]
    /\ call = NoFacadeCall
    /\ bus = EmptyBus
    /\ inbox = NoInbox
    /\ query = NoQuery
    /\ repo = NoDocument
    /\ \E a, b, c, d \in UserIds, o \in OrgIds :
          /\ Cardinality({a, b, c, d}) = 4
          /\ scn = [pc |-> 0, a |-> a, b |-> b, c |-> c, d |-> d, o |-> o,
                    res |-> <<>>]

ScnStep(k, r) ==
    /\ orgs' = r.orgs
    /\ teams' = r.teams
    /\ users' = r.users
    /\ scn' = [scn EXCEPT !.pc = k, !.res = Append(@, r.err)]
    /\ UNCHANGED <<last, nops, procs, call, bus, inbox, repo, query>>

ScnCreate ==
    /\ scn.pc = 0
    /\ ScnStep(1, CreateOrganization(orgs, teams, users, scn.o, scn.a))

ScnAddAdmin ==
    /\ scn.pc = 1
    /\ ScnStep(2, AddOrganizationMember(orgs, teams, users, scn.o, scn.b, OrgRoleAdmin, scn.a))

ScnAdminAddsMember ==
    /\ scn.pc = 2
    /\ ScnStep(3, AddOrganizationMember(orgs, teams, users, scn.o, scn.c, OrgRoleMember, scn.b))

ScnAdminRemovesOwner ==
    /\ scn.pc = 3
    /\ ScnStep(4, RemoveOrganizationMember(orgs, teams, users, scn.o, scn.a, scn.b))

ScnSoleOwnerDemotesSelf ==
    /\ scn.pc = 4
    /\ ScnStep(5, UpdateOrganizationMember(orgs, teams, users, scn.o, scn.a, OrgRoleMember, scn.a))

ScnAddSecondOwner ==
    /\ scn.pc = 5
    /\ ScnStep(6, AddOrganizationMember(orgs, teams, users, scn.o, scn.d, OrgRoleOwner, scn.a))

ScnOwnerDemotesSelf ==
    /\ scn.pc = 6
    /\ ScnStep(7, UpdateOrganizationMember(orgs, teams, users, scn.o, scn.a, OrgRoleMember, scn.a))

NextScenario ==
    \/ ScnCreate
    \/ ScnAddAdmin
    \/ ScnAdminAddsMember
    \/ ScnAdminRemovesOwner
    \/ ScnSoleOwnerDemotesSelf
    \/ ScnAddSecondOwner
    \/ ScnOwnerDemotesSelf

SpecScenario == InitScenario /\ [][NextScenario]_vars

\* -------------------------------------------- interleaved facade calls
\* Each process runs one member call; every store call of the handler is a
\* step of its own.  The store the calls start from is the one left by
\* CreateUser for every identity, CreateOrganization(o1) by A, AddMember of
\* B as Owner and C as Member, CreateTeam(t1 under o1) by A and AddTeamMember
\* of B as Owner.
ConcStore ==
    LET s1 == CreateOrganization(EmptyOrgs, EmptyTeams, AllUsersCreated, "o1", "A")
        s2 == AddOrganizationMember(s1.orgs, s1.teams, s1.users, "o1", "B", OrgRoleOwner, "A")
        s3 == AddOrganizationMember(s2.orgs, s2.teams, s2.users, "o1", "C", OrgRoleMember, "A")
        s4 == CreateTeam(s3.orgs, s3.teams, s3.users, "t1", "o1", "A")
    IN  AddTeamMember(s4.orgs, s4.teams, s4.users, "t1", "B", TeamRoleOwner, "A")

InitConc ==
    /\ orgs = ConcStore.orgs
    /\ teams = ConcStore.teams
    /\ users = ConcStore.users
    /\ last = NoCall
    /\ nops = 0
    /\ procs = [p \in ProcIds |-> IdleProc]
    /\ scn = NoScenario
    /\ call = NoFacadeCall
    /\ bus = EmptyBus
    /\ inbox = NoInbox
    /\ query = NoQuery
    /\ repo = NoDocument

\* process p moves to pc, or returns e
Goto(p, pc) == procs' = [procs EXCEPT ![p].pc = pc]
Return(p, e) == procs' = [procs EXCEPT ![p].pc = "done", ![p].err = e]

\* the call enters the handler; its first store call is the load of the group
Begin(p, op, gid, actor, target, role, e, pc) ==
    procs' = [procs EXCEPT ![p] =
                [pc |-> IF e = OK THEN pc ELSE "done", op |-> op, gid |-> gid,
                 actor |-> actor, target |-> target, role |-> role,
                 exists |-> FALSE, members |-> <<>>, err |-> e]]

At(p, op, pc) == procs[p].op = op /\ procs[p].pc = pc

\* AddTeamMember: GetByID of the team and the permission check
AddTeamMemberLoad(p) ==
    /\ procs[p].pc = "idle"
    /\ \E teamID \in TeamIds, userID \in Principals, role \in TeamRoles,
          invitedBy \in Principals :
          /\ Begin(p, "AddTeamMember", teamID, invitedBy, userID, role,
                   IF ~TeamRepoFound(teams, teamID) THEN ErrTeamNotFound
                   ELSE IF ~HasRole(teams[teamID].members, invitedBy,
                                    {TeamRoleOwner, TeamRoleAdmin})
                   THEN ErrTeamAddPerm ELSE OK,
                   "getUser")
    /\ UNCHANGED <<orgs, teams, users, last, nops, scn, call, bus, inbox, repo, query>>

\* AddTeamMember: GetByUserID of the user to add
AddTeamMemberGetUser(p) ==
    /\ At(p, "AddTeamMember", "getUser")
    /\ IF UserRepoFound(users, procs[p].target)
       THEN Goto(p, "getOrg")
       ELSE Return(p, ErrUserNotFound)
    /\ UNCHANGED <<orgs, teams, users, last, nops, scn, call, bus, inbox, repo, query>>

\* AddTeamMember: GetByID of the team's organization (organizationId is
\* never written after NewTeam) and the membership check
AddTeamMemberGetOrg(p) ==
    /\ At(p, "AddTeamMember", "getOrg")
    /\ LET orgID == teams[procs[p].gid].organizationId IN
       IF ~OrgRepoFound(orgs, orgID)
       THEN Return(p, ErrNoDocuments)
       ELSE IF ~IsMember(orgs[orgID].members, procs[p].target)
       THEN Return(p, ErrNotOrgMember)
       ELSE Goto(p, "count")
    /\ UNCHANGED <<orgs, teams, users, last, nops, scn, call, bus, inbox, repo, query>>

\* AddTeamMember: the reverse reference, after the team write
AddTeamMemberUserRef(p) ==
    /\ At(p, "AddTeamMember", "userRef")
    /\ users' = AddTeamToUser(users, procs[p].target, procs[p].gid)
    /\ Return(p, OK)
    /\ UNCHANGED <<orgs, teams, last, nops, scn, call, bus, inbox, repo, query>>

\* UpdateTeamMember: GetByID of the team and the checks on what it read
UpdateTeamMemberLoad(p) ==
    /\ procs[p].pc = "idle"
    /\ \E teamID \in TeamIds, memberID \in Principals, role \in TeamRoles,
          updatedBy \in Principals :
          /\ Begin(p, "UpdateTeamMember", teamID, updatedBy, memberID, role,
                   IF ~TeamRepoFound(teams, teamID) THEN ErrTeamNotFound
                   ELSE UpdateTeamMemberCheck(teams[teamID], memberID, role, updatedBy),
                   "count")
    /\ UNCHANGED <<orgs, teams, users, last, nops, scn, call, bus, inbox, repo, query>>

\* TeamRepository.AddMember: the CountDocuments query
TeamRepoAddMemberCount(p) ==
    /\ procs[p].op \in {"AddTeamMember", "UpdateTeamMember"}
    /\ procs[p].pc = "count"
    /\ procs' = [procs EXCEPT
                    ![p].exists = TeamRepoAddMemberExists(teams, procs[p].gid, procs[p].target),
                    ![p].pc = "write"]
    /\ UNCHANGED <<orgs, teams, users, last, nops, scn, call, bus, inbox, repo, query>>

\* TeamRepository.AddMember: the UpdateOne the count selected
TeamRepoAddMemberWrite(p) ==
    /\ procs[p].op \in {"AddTeamMember", "UpdateTeamMember"}
    /\ procs[p].pc = "write"
    /\ teams' = IF procs[p].exists
                THEN TeamRepoAddMemberSetRole(teams, procs[p].gid, procs[p].target,
                                              procs[p].role)
                ELSE TeamRepoAddMemberPush(teams, procs[p].gid, procs[p].target,
                                           procs[p].role, procs[p].actor)
    /\ IF procs[p].op = "AddTeamMember" THEN Goto(p, "userRef") ELSE Return(p, OK)
    /\ UNCHANGED <<orgs, users, last, nops, scn, call, bus, inbox, repo, query>>

\* RemoveTeamMember: GetByID of the team and the checks on what it read
RemoveTeamMemberLoad(p) ==
    /\ procs[p].pc = "idle"
    /\ \E teamID \in TeamIds, memberID \in Principals, removedBy \in Principals :
          /\ Begin(p, "RemoveTeamMember", teamID, removedBy, memberID, None,
                   IF ~TeamRepoFound(teams, teamID) THEN ErrTeamNotFound
                   ELSE RemoveTeamMemberCheck(teams[teamID], memberID, removedBy),
                   "pull")
    /\ UNCHANGED <<orgs, teams, users, last, nops, scn, call, bus, inbox, repo, query>>

\* RemoveTeamMember: TeamRepository.RemoveMember
RemoveTeamMemberPull(p) ==
    /\ At(p, "RemoveTeamMember", "pull")
    /\ LET r == TeamRepoRemoveMember(teams, procs[p].gid, procs[p].target) IN
       /\ teams' = r.teams
       /\ IF r.err = OK THEN Goto(p, "userRef") ELSE Return(p, r.err)
    /\ UNCHANGED <<orgs, users, last, nops, scn, call, bus, inbox, repo, query>>

\* RemoveTeamMember: the reverse reference, after the team write
RemoveTeamMemberUserRef(p) ==
    /\ At(p, "RemoveTeamMember", "userRef")
    /\ users' = RemoveTeamFromUser(users, procs[p].target, procs[p].gid)
    /\ Return(p, OK)
    /\ UNCHANGED <<orgs, teams, last, nops, scn, call, bus, inbox, repo, query>>

\* UpdateOrganizationMember: GetByID and the checks on what it read
UpdateOrganizationMemberLoad(p) ==
    /\ procs[p].pc = "idle"
    /\ \E orgID \in OrgIds, memberID \in Principals, role \in OrgRoles,
          updatedBy \in Principals :
          /\ Begin(p, "UpdateOrganizationMember", orgID, updatedBy, memberID, role,
                   IF ~OrgRepoFound(orgs, orgID) THEN ErrOrgNotFound
                   ELSE UpdateOrganizationMemberCheck(orgs[orgID], memberID, role, updatedBy),
                   "count")
    /\ UNCHANGED <<orgs, teams, users, last, nops, scn, call, bus, inbox, repo, query>>

\* OrganizationRepository.AddMember: the CountDocuments query
OrgRepoAddMemberCount(p) ==
    /\ At(p, "UpdateOrganizationMember", "count")
    /\ procs' = [procs EXCEPT
                    ![p].exists = OrgRepoAddMemberExists(orgs, procs[p].gid, procs[p].target),
                    ![p].pc = "write"]
    /\ UNCHANGED <<orgs, teams, users, last, nops, scn, call, bus, inbox, repo, query>>

\* OrganizationRepository.AddMember: the UpdateOne the count selected
OrgRepoAddMemberWrite(p) ==
    /\ At(p, "UpdateOrganizationMember", "write")
    /\ orgs' = IF procs[p].exists
               THEN OrgRepoAddMemberSetRole(orgs, procs[p].gid, procs[p].target,
                                            procs[p].role)
               ELSE OrgRepoAddMemberPush(orgs, procs[p].gid, procs[p].target,
                                         procs[p].role, procs[p].actor)
    /\ Return(p, OK)
    /\ UNCHANGED <<teams, users, last, nops, scn, call, bus, inbox, repo, query>>

\* RemoveOrganizationMember: GetByID and the checks on what it read
RemoveOrganizationMemberLoad(p) ==
    /\ procs[p].pc = "idle"
    /\ \E orgID \in OrgIds, memberID \in Principals, removedBy \in Principals :
          /\ Begin(p, "RemoveOrganizationMember", orgID, removedBy, memberID, None,
                   IF ~OrgRepoFound(orgs, orgID) THEN ErrOrgNotFound
                   ELSE RemoveOrganizationMemberCheck(orgs[orgID], memberID, removedBy),
                   "pull")
    /\ UNCHANGED <<orgs, teams, users, last, nops, scn, call, bus, inbox, repo, query>>

\* RemoveOrganizationMember: OrganizationRepository.RemoveMember
RemoveOrganizationMemberPull(p) ==
    /\ At(p, "RemoveOrganizationMember", "pull")
    /\ LET r == OrgRepoRemoveMember(orgs, procs[p].gid, procs[p].target) IN
       /\ orgs' = r.orgs
       /\ IF r.err = OK THEN Goto(p, "userRef") ELSE Return(p, r.err)
    /\ UNCHANGED <<teams, users, last, nops, scn, call, bus, inbox, repo, query>>

\* RemoveOrganizationMember: the reverse reference, after the group write
RemoveOrganizationMemberUserRef(p) ==
    /\ At(p, "RemoveOrganizationMember", "userRef")
    /\ users' = RemoveOrganizationFromUser(users, procs[p].target, procs[p].gid)
    /\ Return(p, OK)
    /\ UNCHANGED <<orgs, teams, last, nops, scn, call, bus, inbox, repo, query>>

\* UpdateOrganization: GetByID, the permission check on what it read, and
\* Apply on the document in memory
UpdateOrganizationLoad(p) ==
    /\ procs[p].pc = "idle"
    /\ \E id \in OrgIds, userID \in Principals :
          LET e == UpdateOrganization(orgs, teams, users, id, "d1", userID).err IN
          procs' = [procs EXCEPT ![p] =
                      [IdleProc EXCEPT
                          !.pc = IF e = OK THEN "save" ELSE "done",
                          !.op = "UpdateOrganization", !.gid = id, !.actor = userID,
                          !.members = IF e = OK THEN orgs[id].members ELSE <<>>,
                          !.err = e]]
    /\ UNCHANGED <<orgs, teams, users, last, nops, scn, call, bus, inbox, repo, query>>

\* UpdateOrganization: OrganizationRepository.Update of the document in memory
UpdateOrganizationSave(p) ==
    /\ At(p, "UpdateOrganization", "save")
    /\ orgs' = OrgRepoUpdate(orgs, procs[p].gid,
                             [description |-> "d1", members |-> procs[p].members])
    /\ procs' = [procs EXCEPT ![p].pc = "done", ![p].members = <<>>]
    /\ UNCHANGED <<teams, users, last, nops, scn, call, bus, inbox, repo, query>>

\* UpdateTeam: GetByID, the permission check on what it read, and Apply on
\* the document in memory
UpdateTeamLoad(p) ==
    /\ procs[p].pc = "idle"
    /\ \E id \in TeamIds, userID \in Principals :
          LET e == UpdateTeam(orgs, teams, users, id, "d1", userID).err IN
          procs' = [procs EXCEPT ![p] =
                      [IdleProc EXCEPT
                          !.pc = IF e = OK THEN "save" ELSE "done",
                          !.op = "UpdateTeam", !.gid = id, !.actor = userID,
                          !.members = IF e = OK THEN teams[id].members ELSE <<>>,
                          !.err = e]]
    /\ UNCHANGED <<orgs, teams, users, last, nops, scn, call, bus, inbox, repo, query>>

\* UpdateTeam: TeamRepository.Update of the document in memory
UpdateTeamSave(p) ==
    /\ At(p, "UpdateTeam", "save")
    /\ teams' = TeamRepoUpdate(teams, procs[p].gid,
                               [description |-> "d1", members |-> procs[p].members])
    /\ procs' = [procs EXCEPT ![p].pc = "done", ![p].members = <<>>]
    /\ UNCHANGED <<orgs, users, last, nops, scn, call, bus, inbox, repo, query>>

\* DeleteTeam: GetByID of the team and the permission check on what it read
DeleteTeamLoad(p) ==
    /\ procs[p].pc = "idle"
    /\ \E id \in TeamIds, userID \in Principals :
          LET e == DeleteTeam(orgs, teams, users, id, userID).err IN
          procs' = [procs EXCEPT ![p] =
                      [IdleProc EXCEPT
                          !.pc = IF e = OK THEN "delete" ELSE "done",
                          !.op = "DeleteTeam", !.gid = id, !.actor = userID,
                          !.target = IF e = OK THEN teams[id].organizationId ELSE None,
                          !.members = IF e = OK THEN teams[id].members ELSE <<>>,
                          !.err = e]]
    /\ UNCHANGED <<orgs, teams, users, last, nops, scn, call, bus, inbox, repo, query>>

\* DeleteTeam: TeamRepository.Delete
DeleteTeamDelete(p) ==
    /\ At(p, "DeleteTeam", "delete")
    /\ teams' = TeamRepoDelete(teams, procs[p].gid)
    /\ Goto(p, "orgRef")
    /\ UNCHANGED <<orgs, users, last, nops, scn, call, bus, inbox, repo, query>>

\* DeleteTeam: OrganizationRepository.RemoveTeam on the organization it read
DeleteTeamOrgRef(p) ==
    /\ At(p, "DeleteTeam", "orgRef")
    /\ orgs' = OrgRepoRemoveTeam(orgs, procs[p].target, procs[p].gid).orgs
    /\ IF procs[p].members = <<>> THEN Return(p, OK) ELSE Goto(p, "userRef")
    /\ UNCHANGED <<teams, users, last, nops, scn, call, bus, inbox, repo, query>>

\* DeleteTeam: one round of "for _, member := range team.Members" over the
\* members it read
DeleteTeamUserRef(p) ==
    /\ At(p, "DeleteTeam", "userRef")
    /\ users' = RemoveTeamFromUser(users, Head(procs[p].members).userId, procs[p].gid)
    /\ procs' = [procs EXCEPT
                    ![p].members = Tail(@),
                    ![p].pc = IF Tail(procs[p].members) = <<>> THEN "done" ELSE "userRef"]
    /\ UNCHANGED <<orgs, teams, last, nops, scn, call, bus, inbox, repo, query>>

NextConc ==
    \E p \in ProcIds :
        \/ DeleteTeamLoad(p)
        \/ DeleteTeamDelete(p)
        \/ DeleteTeamOrgRef(p)
        \/ DeleteTeamUserRef(p)
        \/ UpdateOrganizationLoad(p)
        \/ UpdateOrganizationSave(p)
        \/ UpdateTeamLoad(p)
        \/ UpdateTeamSave(p)
        \/ AddTeamMemberLoad(p)
        \/ AddTeamMemberGetUser(p)
        \/ AddTeamMemberGetOrg(p)
        \/ AddTeamMemberUserRef(p)
        \/ UpdateTeamMemberLoad(p)
        \/ TeamRepoAddMemberCount(p)
        \/ TeamRepoAddMemberWrite(p)
        \/ RemoveTeamMemberLoad(p)
        \/ RemoveTeamMemberPull(p)
        \/ RemoveTeamMemberUserRef(p)
        \/ UpdateOrganizationMemberLoad(p)
        \/ OrgRepoAddMemberCount(p)
        \/ OrgRepoAddMemberWrite(p)
        \/ RemoveOrganizationMemberLoad(p)
        \/ RemoveOrganizationMemberPull(p)
        \/ RemoveOrganizationMemberUserRef(p)

SpecConc == InitConc /\ [][NextConc]_vars

\* ------------------------------------------------- identity-created events
\* number of messages the subscribed topic delivers in one run
MaxMsgs == 2

\* Event.Data as the handler reads it: an object with the four string fields
\* (a field that is absent or not a string reads as ""), or something that is
\* not an object; typ is the event type the message is dispatched on
Messages ==
    LET EventIds == {"", "A", "B"}
        EventEmails == {"", "mail-A", "mail-B"}
        EventFirstNames == {"", "Ann"}
        EventLastNames == {"", "Lee"}
    IN
    [typ : {UserCreated}, data : {"object"}, id : EventIds, email : EventEmails,
     firstName : EventFirstNames, lastName : EventLastNames]
    \cup [typ : {UserCreated}, data : {"text"}, id : {""}, email : {""},
          firstName : {""}, lastName : {""}]
    \cup [typ : {"user.updated"}, data : {"object"}, id : {"A"}, email : {"mail-A"},
          firstName : {"Ann"}, lastName : {"Lee"}]

\* a publish goroutine: n names the call that started it; skip holds when the
\* goroutine returns before PublishUserEvent / PublishTeamEvent
Goroutine(n, typ, subject, skip) ==
    [n |-> n, typ |-> typ, subject |-> subject, skip |-> skip]

\* the outcome of one handler run: the error returned, the store calls made in
\* order, the User collection left, and the goroutines started
Handled(e, calls, usersV, started) ==
    [err |-> e, calls |-> calls, users |-> usersV, started |-> started]

ProcessAuthUserCreated_NoExistingCheck(usersV, event, n) ==
    IF event.data # "object" THEN Handled(ErrInvalidData, <<>>, usersV, {})
    ELSE IF event.id = "" \/ event.email = "" \/ event.firstName = "" \/ event.lastName = ""
    THEN Handled(ErrMissingFields, <<>>, usersV, {})
    ELSE LET r == UserRepoCreate(usersV, event.id, event.email) IN
         IF r.err # OK
         THEN Handled(r.err, <<"GetByUserId", "GetByUserId">>, usersV, {})
         ELSE Handled(OK, <<"GetByUserId", "GetByUserId", "GetByEmail", "InsertOne">>,
                      r.users, {Goroutine(n, UserCreated, event.id, FALSE)})

ProcessAuthUserCreated(usersV, event, n) ==
    IF event.data # "object"
    THEN Handled(ErrInvalidData, <<>>, usersV, {})
    ELSE IF event.id = "" \/ event.email = "" \/ event.firstName = "" \/ event.lastName = ""
    THEN Handled(ErrMissingFields, <<>>, usersV, {})
    ELSE IF UserRepoFound(usersV, event.id)
    THEN Handled(OK, <<"GetByUserId">>, usersV, {})
    ELSE LET r == UserRepoCreate(usersV, event.id, event.email) IN
         IF r.err # OK
         THEN Handled(r.err, <<"GetByUserId", "GetByUserId", "GetByEmail">>, usersV, {})
         ELSE Handled(OK, <<"GetByUserId", "GetByUserId", "GetByEmail", "InsertOne">>,
                      r.users, {Goroutine(n, UserCreated, event.id, FALSE)})

\* processMessage: the handler registered for the topic and the event type,
\* if there is one
processMessage(usersV, msg, n) ==
    IF msg.typ = UserCreated
    THEN ProcessAuthUserCreated(usersV, msg, n) @@ [handler |-> TRUE]
    ELSE Handled(OK, <<>>, usersV, {}) @@ [handler |-> FALSE]

InitConsumer ==
    /\ orgs = EmptyOrgs
    /\ teams = EmptyTeams
    /\ users = EmptyUsers
    /\ last = NoCall
    /\ nops = 0
    /\ procs = [p \in ProcIds |-> IdleProc]
    /\ scn = NoScenario
    /\ call = NoFacadeCall
    /\ bus = EmptyBus
    /\ inbox = NoInbox
    /\ query = NoQuery
    /\ repo = NoDocument

\* the upstream identity system produces a message, or the bus delivers one of
\* the earlier messages again
TopicDeliver ==
    /\ Len(inbox.msgs) < MaxMsgs
    /\ \E msg \in Messages : inbox' = [inbox EXCEPT !.msgs = Append(@, msg)]
    /\ UNCHANGED <<orgs, teams, users, last, nops, procs, scn, call, bus, repo, query>>

consume_Retry ==
    /\ inbox.pos < Len(inbox.msgs)
    /\ LET n == inbox.pos + 1
           h == processMessage(users, inbox.msgs[n], n)
       IN  /\ users' = h.users
           /\ bus' = [bus EXCEPT !.spawned = @ \cup h.started]
           /\ inbox' = [inbox EXCEPT !.pos = IF h.err = OK THEN n ELSE @,
                                     !.handled = Append(@, [err |-> h.err,
                                                            calls |-> h.calls,
                                                            handler |-> h.handler,
                                                            started |-> h.started # {}])]
    /\ UNCHANGED <<orgs, teams, last, nops, procs, scn, call, repo, query>>

\* one turn of the consume loop: ReadMessage, processMessage, and on to the
\* next message whatever the handler returned
consume ==
    /\ inbox.pos < Len(inbox.msgs)
    /\ LET n == inbox.pos + 1
           h == processMessage(users, inbox.msgs[n], n)
       IN  /\ users' = h.users
           /\ bus' = [bus EXCEPT !.spawned = @ \cup h.started]
           /\ inbox' = [inbox EXCEPT !.pos = n,
                                     !.handled = Append(@, [err |-> h.err,
                                                            calls |-> h.calls,
                                                            handler |-> h.handler,
                                                            started |-> h.started # {}])]
    /\ UNCHANGED <<orgs, teams, last, nops, procs, scn, call, repo, query>>

\* a publish goroutine runs: it returns at once when it has nothing to
\* publish, and otherwise hands its message to the producer, which takes it
\* or refuses it
Envelope(g, ok) == [n |-> g.n, typ |-> g.typ, subject |-> g.subject, ok |-> ok]

\* variant: the call that started the goroutine takes the error of Produce
publish_ReturnsError ==
    /\ \E g \in bus.spawned :
          \/ /\ g.skip
             /\ bus' = [bus EXCEPT !.spawned = @ \ {g}]
             /\ last' = last
          \/ /\ ~g.skip
             /\ \E ok \in BOOLEAN :
                   /\ bus' = [bus EXCEPT !.spawned = @ \ {g},
                                         !.produced = @ \cup {Envelope(g, ok)}]
                   /\ last' = IF ok THEN last ELSE [last EXCEPT !.err = ErrStore]
    /\ UNCHANGED <<orgs, teams, users, nops, procs, scn, call, inbox, repo, query>>

publish ==
    /\ \E g \in bus.spawned :
          \/ /\ g.skip
             /\ bus' = [bus EXCEPT !.spawned = @ \ {g}]
          \/ /\ ~g.skip
             /\ \E ok \in BOOLEAN :
                   bus' = [bus EXCEPT !.spawned = @ \ {g},
                                      !.produced = @ \cup {Envelope(g, ok)}]
    /\ UNCHANGED <<orgs, teams, users, last, nops, procs, scn, call, inbox, repo, query>>

NextConsumer ==
    \/ TopicDeliver
    \/ consume
    \/ publish

SpecConsumer == InitConsumer /\ [][NextConsumer]_vars

\* ================================================ facade with store failures
\* One facade call at a time, taken store call by store call; every store
\* call either succeeds or returns an error.  The publish goroutine a call
\* starts runs at any later time, next to the calls that follow.

\* number of facade calls in one run of the specification with store failures
MaxCalls == 1

\* the stores a run starts from: the users alone; an organization with
\* owners A and B and member C; that organization with a team of A and B; and
\* that organization with a second team
FaultStores ==
    LET s1 == CreateOrganization(EmptyOrgs, EmptyTeams, AllUsersCreated, "o1", "A")
        s2 == AddOrganizationMember(s1.orgs, s1.teams, s1.users, "o1", "B", OrgRoleOwner, "A")
        s3 == AddOrganizationMember(s2.orgs, s2.teams, s2.users, "o1", "C", OrgRoleMember, "A")
        s5 == CreateTeam(ConcStore.orgs, ConcStore.teams, ConcStore.users, "t2", "o1", "A")
    IN  { Res(OK, EmptyOrgs, EmptyTeams, AllUsersCreated), s3, ConcStore, s5 }

\* the requests to the facade: the method, the group, the caller, the user
\* named, the role asked for and the new description
Requests ==
    LET Actors == {"A", "C"}
        Targets == {"B", "C", "D"}
        Roles == {"admin", "member"}
        Request(op, gid, actor, target, role) ==
            [op |-> op, gid |-> gid, actor |-> actor, target |-> target,
             role |-> role, description |-> "d1"]
    IN
    { Request(op, gid, actor, target, role) :
        op \in {"AddOrganizationMember", "UpdateOrganizationMember"},
        gid \in OrgIds, actor \in Actors, target \in Targets, role \in Roles }
    \cup { Request(op, gid, actor, target, role) :
        op \in {"AddTeamMember", "UpdateTeamMember"},
        gid \in TeamIds, actor \in Actors, target \in Targets, role \in Roles }
    \cup { Request("RemoveOrganizationMember", gid, actor, target, None) :
        gid \in OrgIds, actor \in Actors, target \in Targets }
    \cup { Request("RemoveTeamMember", gid, actor, target, None) :
        gid \in TeamIds, actor \in Actors, target \in Targets }
    \cup { Request(op, gid, actor, None, None) :
        op \in {"CreateOrganization", "UpdateOrganization", "DeleteOrganization"},
        gid \in OrgIds, actor \in Actors }
    \cup { Request(op, gid, actor, None, None) :
        op \in {"CreateTeam", "UpdateTeam", "DeleteTeam"},
        gid \in TeamIds, actor \in Actors }

\* the organization a CreateTeam request names
RequestOrganization == "o1"

\* the error the handler returns from its loads and checks, before its first
\* write; OK when they all pass
CheckOf(req) ==
    CASE req.op = "CreateOrganization" -> OK
      [] req.op = "UpdateOrganization" ->
            UpdateOrganization(orgs, teams, users, req.gid, req.description, req.actor).err
      [] req.op = "DeleteOrganization" ->
            DeleteOrganization(orgs, teams, users, req.gid, req.actor).err
      [] req.op = "AddOrganizationMember" ->
            AddOrganizationMember(orgs, teams, users, req.gid, req.target, req.role, req.actor).err
      [] req.op = "UpdateOrganizationMember" ->
            UpdateOrganizationMember(orgs, teams, users, req.gid, req.target, req.role, req.actor).err
      [] req.op = "RemoveOrganizationMember" ->
            RemoveOrganizationMember(orgs, teams, users, req.gid, req.target, req.actor).err
      [] req.op = "CreateTeam" ->
            CreateTeam(orgs, teams, users, req.gid, RequestOrganization, req.actor).err
      [] req.op = "UpdateTeam" ->
            UpdateTeam(orgs, teams, users, req.gid, req.description, req.actor).err
      [] req.op = "DeleteTeam" ->
            DeleteTeam(orgs, teams, users, req.gid, req.actor).err
      [] req.op = "AddTeamMember" ->
            AddTeamMember(orgs, teams, users, req.gid, req.target, req.role, req.actor).err
      [] req.op = "UpdateTeamMember" ->
            UpdateTeamMember(orgs, teams, users, req.gid, req.target, req.role, req.actor).err
      [] req.op = "RemoveTeamMember" ->
            RemoveTeamMember(orgs, teams, users, req.gid, req.target, req.actor).err

\* one store call of a handler.  class: "group" is the write on the group
\* aggregate, whose error the handler returns; "child" (a team of the
\* organization being deleted), "parent" (the organization's teamIds) and
\* "reverse" (a User's organizationIds / teamIds) are writes whose error the
\* handler logs; "refresh" is the GetByID after the write
StoreCall(f, class, arg) == [f |-> f, class |-> class, arg |-> arg]

RECURSIVE SeqOf(_)
SeqOf(S) == IF S = {} THEN <<>>
            ELSE LET x == CHOOSE y \in S : TRUE IN <<x>> \o SeqOf(S \ {x})

\* the "for _, member := range Members" loop as the calls it makes
ForEachMember(members, f) ==
    [i \in 1..Len(members) |-> StoreCall(f, "reverse", members[i].userId)]

ForEachTeam(teamIDs) ==
    LET ids == SeqOf(teamIDs) IN
    [i \in 1..Len(ids) |-> StoreCall("TeamRepoDelete", "child", ids[i])]

\* the store calls a handler makes after its checks, in the order of its code
Plan(req) ==
    CASE req.op = "CreateOrganization" ->
            << StoreCall("OrgRepoCreate", "group", None),
               StoreCall("AddOrganizationToUser", "reverse", req.actor) >>
      [] req.op = "UpdateOrganization" ->
            << StoreCall("OrgRepoUpdate", "group", req.description) >>
      [] req.op = "DeleteOrganization" ->
            ForEachTeam(orgs[req.gid].teamIds)
            \o << StoreCall("OrgRepoDelete", "group", None) >>
            \o ForEachMember(orgs[req.gid].members, "RemoveOrganizationFromUser")
      [] req.op = "AddOrganizationMember" ->
            << StoreCall("OrgRepoAddMember", "group", None),
               StoreCall("AddOrganizationToUser", "reverse", req.target),
               StoreCall("OrgRepoGetByID", "refresh", None) >>
      [] req.op = "UpdateOrganizationMember" ->
            << StoreCall("OrgRepoAddMember", "group", None),
               StoreCall("OrgRepoGetByID", "refresh", None) >>
      [] req.op = "RemoveOrganizationMember" ->
            << StoreCall("OrgRepoRemoveMember", "group", None),
               StoreCall("RemoveOrganizationFromUser", "reverse", req.target) >>
      [] req.op = "CreateTeam" ->
            << StoreCall("TeamRepoCreate", "group", None),
               StoreCall("OrgRepoAddTeam", "parent", RequestOrganization),
               StoreCall("AddTeamToUser", "reverse", req.actor) >>
      [] req.op = "UpdateTeam" ->
            << StoreCall("TeamRepoUpdate", "group", req.description) >>
      [] req.op = "DeleteTeam" ->
            << StoreCall("TeamRepoDelete", "group", req.gid),
               StoreCall("OrgRepoRemoveTeam", "parent", teams[req.gid].organizationId) >>
            \o ForEachMember(teams[req.gid].members, "RemoveTeamFromUser")
      [] req.op = "AddTeamMember" ->
            << StoreCall("TeamRepoAddMember", "group", None),
               StoreCall("AddTeamToUser", "reverse", req.target),
               StoreCall("TeamRepoGetByID", "refresh", None) >>
      [] req.op = "UpdateTeamMember" ->
            << StoreCall("TeamRepoAddMember", "group", None),
               StoreCall("TeamRepoGetByID", "refresh", None) >>
      [] req.op = "RemoveTeamMember" ->
            << StoreCall("TeamRepoRemoveMember", "group", None),
               StoreCall("RemoveTeamFromUser", "reverse", req.target) >>

\* the store a successful store call c of the call in flight leaves
Apply(c) ==
    CASE c.f = "OrgRepoCreate" ->
            Res(OK, OrgRepoCreate(orgs, call.gid, NewOrganization(call.actor)), teams, users)
      [] c.f = "OrgRepoUpdate" ->
            Res(OK, OrgRepoUpdate(orgs, call.gid, [orgs[call.gid] EXCEPT !.description = c.arg]),
                teams, users)
      [] c.f = "OrgRepoDelete" ->
            Res(OK, OrgRepoDelete(orgs, call.gid), teams, users)
      [] c.f = "OrgRepoAddMember" ->
            Res(OK, OrgRepoAddMember(orgs, call.gid, call.target, call.role, call.actor),
                teams, users)
      [] c.f = "OrgRepoRemoveMember" ->
            Res(OK, OrgRepoRemoveMember(orgs, call.gid, call.target).orgs, teams, users)
      [] c.f = "OrgRepoAddTeam" ->
            Res(OK, OrgRepoAddTeam(orgs, c.arg, call.gid), teams, users)
      [] c.f = "OrgRepoRemoveTeam" ->
            Res(OK, OrgRepoRemoveTeam(orgs, c.arg, call.gid).orgs, teams, users)
      [] c.f = "TeamRepoCreate" ->
            Res(OK, orgs,
                TeamRepoCreate(teams, call.gid, NewTeam(RequestOrganization, call.actor)),
                users)
      [] c.f = "TeamRepoUpdate" ->
            Res(OK, orgs,
                TeamRepoUpdate(teams, call.gid, [teams[call.gid] EXCEPT !.description = c.arg]),
                users)
      [] c.f = "TeamRepoDelete" ->
            Res(OK, orgs, TeamRepoDelete(teams, c.arg), users)
      [] c.f = "TeamRepoAddMember" ->
            Res(OK, orgs,
                TeamRepoAddMember(teams, call.gid, call.target, call.role, call.actor),
                users)
      [] c.f = "TeamRepoRemoveMember" ->
            Res(OK, orgs, TeamRepoRemoveMember(teams, call.gid, call.target).teams, users)
      [] c.f = "AddOrganizationToUser" ->
            Res(OK, orgs, teams, AddOrganizationToUser(users, c.arg, call.gid))
      [] c.f = "RemoveOrganizationFromUser" ->
            Res(OK, orgs, teams, RemoveOrganizationFromUser(users, c.arg, call.gid))
      [] c.f = "AddTeamToUser" ->
            Res(OK, orgs, teams, AddTeamToUser(users, c.arg, call.gid))
      [] c.f = "RemoveTeamFromUser" ->
            Res(OK, orgs, teams, RemoveTeamFromUser(users, c.arg, call.gid))
      [] c.f \in {"OrgRepoGetByID", "TeamRepoGetByID"} ->
            Res(OK, orgs, teams, users)

\* the members of the group the call in flight works on, as a GetByID reads them
GroupMembers(op, gid) ==
    IF gid \in OrgIds
    THEN (IF OrgRepoFound(orgs, gid) THEN orgs[gid].members ELSE <<>>)
    ELSE (IF TeamRepoFound(teams, gid) THEN teams[gid].members ELSE <<>>)

\* the event type constant a handler publishes with
EventTypeOf(op) ==
    CASE op = "CreateOrganization" -> "organization.created"
      [] op = "UpdateOrganization" -> "organization.updated"
      [] op = "DeleteOrganization" -> "organization.deleted"
      [] op = "AddOrganizationMember" -> "organization.member.added"
      [] op = "UpdateOrganizationMember" -> "organization.member.updated"
      [] op = "RemoveOrganizationMember" -> "organization.member.removed"
      [] op = "CreateTeam" -> "team.created"
      [] op = "UpdateTeam" -> "team.updated"
      [] op = "DeleteTeam" -> "team.deleted"
      [] op = "AddTeamMember" -> "team.member.added"
      [] op = "UpdateTeamMember" -> "team.member.updated"
      [] op = "RemoveTeamMember" -> "team.member.removed"

\* whether the goroutine of the call in flight returns before it publishes:
\* "if o == nil { return }" of the handlers that re-read the group, and
\* "if addedMember == nil { return }" of the two AddMember handlers
GoroutineSkips ==
    \/ /\ call.op \in {"AddOrganizationMember", "UpdateOrganizationMember",
                       "AddTeamMember", "UpdateTeamMember"}
       /\ call.doc.nil
    \/ /\ call.op \in {"AddOrganizationMember", "AddTeamMember"}
       /\ ~IsMember(call.doc.members, call.target)

InitFault ==
    /\ \E s \in FaultStores : orgs = s.orgs /\ teams = s.teams /\ users = s.users
    /\ last = NoCall
    /\ nops = 0
    /\ procs = [p \in ProcIds |-> IdleProc]
    /\ scn = NoScenario
    /\ call = NoFacadeCall
    /\ bus = EmptyBus
    /\ inbox = NoInbox
    /\ query = NoQuery
    /\ repo = NoDocument

IsReverse(c) == c.class = "reverse"
IsNotReverse(c) == c.class # "reverse"

\* variant: the handler writes the reverse references before the group
FacadeBegin_ReverseFirst ==
    /\ call.pc = "idle"
    /\ nops < MaxCalls
    /\ \E req \in Requests, loaded \in BOOLEAN :
          /\ req.op = "CreateOrganization" => (orgs[req.gid].st = "absent" /\ loaded)
          /\ req.op = "CreateTeam" => teams[req.gid].st = "absent"
          /\ LET e == IF loaded THEN CheckOf(req) ELSE ErrStore IN
             call' = [pc |-> IF e = OK THEN "store" ELSE "return",
                      n |-> nops + 1,
                      op |-> req.op, gid |-> req.gid, actor |-> req.actor,
                      target |-> req.target, role |-> req.role,
                      todo |-> IF e = OK
                               THEN SelectSeq(Plan(req), IsReverse)
                                    \o SelectSeq(Plan(req), IsNotReverse)
                               ELSE <<>>,
                      log |-> <<>>,
                      doc |-> LoadedDoc(GroupMembers(req.op, req.gid)),
                      err |-> e]
    /\ UNCHANGED <<orgs, teams, users, last, nops, procs, scn, bus, inbox, repo, query>>

\* a request arrives: the handler loads what it checks; a failed load and a
\* failed check both end the call with that error before any write
FacadeBegin ==
    /\ call.pc = "idle"
    /\ nops < MaxCalls
    /\ \E req \in Requests, loaded \in BOOLEAN :
          /\ req.op = "CreateOrganization" => (orgs[req.gid].st = "absent" /\ loaded)
          /\ req.op = "CreateTeam" => teams[req.gid].st = "absent"
          /\ LET e == IF loaded THEN CheckOf(req) ELSE ErrStore IN
             call' = [pc |-> IF e = OK THEN "store" ELSE "return",
                      n |-> nops + 1,
                      op |-> req.op, gid |-> req.gid, actor |-> req.actor,
                      target |-> req.target, role |-> req.role,
                      todo |-> IF e = OK THEN Plan(req) ELSE <<>>,
                      log |-> <<>>,
                      doc |-> LoadedDoc(GroupMembers(req.op, req.gid)),
                      err |-> e]
    /\ UNCHANGED <<orgs, teams, users, last, nops, procs, scn, bus, inbox, repo, query>>

\* variant: the handler goes on after a failed write on the group aggregate
FacadeStore_NoAbort ==
    /\ call.pc = "store"
    /\ call.todo # <<>>
    /\ \E ok \in BOOLEAN :
          LET c == Head(call.todo)
              s == IF ok THEN Apply(c) ELSE Res(OK, orgs, teams, users)
              rest == Tail(call.todo)
          IN  /\ orgs' = s.orgs
              /\ teams' = s.teams
              /\ users' = s.users
              /\ call' = [call EXCEPT
                    !.todo = rest,
                    !.log = Append(@, [f |-> c.f, class |-> c.class, arg |-> c.arg,
                                       ok |-> ok]),
                    !.doc = IF c.class # "refresh" THEN @
                            ELSE IF ok THEN LoadedDoc(GroupMembers(call.op, call.gid))
                            ELSE NilDoc,
                    !.err = IF ~ok /\ c.class = "group" THEN ErrStore ELSE @,
                    !.pc = IF rest = <<>> THEN "return" ELSE "store"]
    /\ UNCHANGED <<last, nops, procs, scn, bus, inbox, repo, query>>

\* variant: the handler returns the error of any failed write
FacadeStore_AbortOnAny ==
    /\ call.pc = "store"
    /\ call.todo # <<>>
    /\ \E ok \in BOOLEAN :
          LET c == Head(call.todo)
              s == IF ok THEN Apply(c) ELSE Res(OK, orgs, teams, users)
              abort == ~ok /\ c.class # "refresh"
              rest == IF abort THEN <<>> ELSE Tail(call.todo)
          IN  /\ orgs' = s.orgs
              /\ teams' = s.teams
              /\ users' = s.users
              /\ call' = [call EXCEPT
                    !.todo = rest,
                    !.log = Append(@, [f |-> c.f, class |-> c.class, arg |-> c.arg,
                                       ok |-> ok]),
                    !.doc = IF c.class # "refresh" THEN @
                            ELSE IF ok THEN LoadedDoc(GroupMembers(call.op, call.gid))
                            ELSE NilDoc,
                    !.err = IF abort THEN ErrStore ELSE @,
                    !.pc = IF rest = <<>> THEN "return" ELSE "store"]
    /\ UNCHANGED <<last, nops, procs, scn, bus, inbox, repo, query>>

\* variant: the handler also stops at a failed delete of a child team
FacadeStore_AbortOnChild ==
    /\ call.pc = "store"
    /\ call.todo # <<>>
    /\ \E ok \in BOOLEAN :
          LET c == Head(call.todo)
              s == IF ok THEN Apply(c) ELSE Res(OK, orgs, teams, users)
              abort == ~ok /\ c.class \in {"group", "child"}
              rest == IF abort THEN <<>> ELSE Tail(call.todo)
          IN  /\ orgs' = s.orgs
              /\ teams' = s.teams
              /\ users' = s.users
              /\ call' = [call EXCEPT
                    !.todo = rest,
                    !.log = Append(@, [f |-> c.f, class |-> c.class, arg |-> c.arg,
                                       ok |-> ok]),
                    !.doc = IF c.class # "refresh" THEN @
                            ELSE IF ok THEN LoadedDoc(GroupMembers(call.op, call.gid))
                            ELSE NilDoc,
                    !.err = IF abort THEN ErrStore ELSE @,
                    !.pc = IF rest = <<>> THEN "return" ELSE "store"]
    /\ UNCHANGED <<last, nops, procs, scn, bus, inbox, repo, query>>

\* the next store call of the handler succeeds or fails
FacadeStore ==
    /\ call.pc = "store"
    /\ call.todo # <<>>
    /\ \E ok \in BOOLEAN :
          LET c == Head(call.todo)
              s == IF ok THEN Apply(c) ELSE Res(OK, orgs, teams, users)
              abort == ~ok /\ c.class = "group"
              rest == IF abort THEN <<>> ELSE Tail(call.todo)
          IN  /\ orgs' = s.orgs
              /\ teams' = s.teams
              /\ users' = s.users
              /\ call' = [call EXCEPT
                    !.todo = rest,
                    !.log = Append(@, [f |-> c.f, class |-> c.class, arg |-> c.arg,
                                       ok |-> ok]),
                    !.doc = IF c.class # "refresh" THEN @
                            ELSE IF ok THEN LoadedDoc(GroupMembers(call.op, call.gid))
                            ELSE NilDoc,
                    !.err = IF abort THEN ErrStore ELSE @,
                    !.pc = IF rest = <<>> THEN "return" ELSE "store"]
    /\ UNCHANGED <<last, nops, procs, scn, bus, inbox, repo, query>>

\* variant: the goroutine is started whatever the handler returns
FacadeReturn_AlwaysPublish ==
    /\ call.pc = "return"
    /\ last' = [op |-> call.op, gid |-> call.gid, actor |-> call.actor,
                target |-> call.target, role |-> call.role, err |-> call.err]
    /\ nops' = nops + 1
    /\ bus' = [bus EXCEPT !.spawned =
                   @ \cup {Goroutine(call.n, EventTypeOf(call.op), call.gid,
                                     GoroutineSkips)}]
    /\ call' = NoFacadeCall
    /\ UNCHANGED <<orgs, teams, users, procs, scn, inbox, repo, query>>

\* the handler returns: on success it has started its publish goroutine just
\* before, and it does not wait for it
FacadeReturn ==
    /\ call.pc = "return"
    /\ last' = [op |-> call.op, gid |-> call.gid, actor |-> call.actor,
                target |-> call.target, role |-> call.role, err |-> call.err]
    /\ nops' = nops + 1
    /\ bus' = IF call.err = OK
              THEN [bus EXCEPT !.spawned =
                        @ \cup {Goroutine(call.n, EventTypeOf(call.op), call.gid,
                                          GoroutineSkips)}]
              ELSE bus
    /\ call' = NoFacadeCall
    /\ UNCHANGED <<orgs, teams, users, procs, scn, inbox, repo, query>>

NextFault ==
    \/ FacadeBegin
    \/ FacadeStore
    \/ FacadeReturn
    \/ publish

SpecFault == InitFault /\ [][NextFault]_vars

\* ================================================================== claims
OrgMemberOps == {"AddOrganizationMember", "UpdateOrganizationMember",
                 "RemoveOrganizationMember"}
TeamMemberOps == {"AddTeamMember", "UpdateTeamMember", "RemoveTeamMember"}

\* the claims' own reading of a members sequence
Has(members, userID) ==
    \E i \in 1..Len(members) : members[i].userId = userID

Holds(members, userID, roles) ==
    \E i \in 1..Len(members) :
        members[i].userId = userID /\ members[i].role \in roles

NumOwners(members) ==
    Cardinality({i \in 1..Len(members) : members[i].role = "owner"})

LiveOrgs == {o \in OrgIds : orgs[o].st = "live"}
LiveTeams == {t \in TeamIds : teams[t].st = "live"}

\* every Owner entry of pre is an entry of post, unchanged
OwnersKept(pre, post) ==
    \A i \in 1..Len(pre) :
        pre[i].role = OrgRoleOwner =>
            \E j \in 1..Len(post) : post[j] = pre[i]

\* C1: every existing Organization and every existing Team has at least one
\* members entry whose role is Owner, in every state reachable by facade
\* calls that run one at a time.
C1_OwnerInvariant ==
    /\ \A o \in LiveOrgs : NumOwners(orgs[o].members) >= 1
    /\ \A t \in LiveTeams : NumOwners(teams[t].members) >= 1

\* C2: in a group with exactly one Owner entry, no facade call (RemoveMember,
\* UpdateMember, or AddMember naming the Owner) removes that entry or changes
\* its role: the entry is the same after every step that keeps the group.
C2_SoleOwnerKept ==
    [][ /\ \A o \in OrgIds :
              (/\ orgs[o].st = "live" /\ orgs'[o].st = "live"
               /\ NumOwners(orgs[o].members) = 1)
              => OwnersKept(orgs[o].members, orgs'[o].members)
        /\ \A t \in TeamIds :
              (/\ teams[t].st = "live" /\ teams'[t].st = "live"
               /\ NumOwners(teams[t].members) = 1)
              => OwnersKept(teams[t].members, teams'[t].members) ]_vars

\* C3: a member call (AddMember, UpdateMember, RemoveMember) issued by an
\* actor whose role in the group is Admin leaves every Owner entry of the
\* group as it was.
C3_AdminNeverTouchesOwner ==
    [][ /\ (/\ last'.op \in OrgMemberOps
            /\ Holds(orgs[last'.gid].members, last'.actor, {OrgRoleAdmin}))
           => OwnersKept(orgs[last'.gid].members, orgs'[last'.gid].members)
        /\ (/\ last'.op \in TeamMemberOps
            /\ Holds(teams[last'.gid].members, last'.actor, {TeamRoleAdmin}))
           => OwnersKept(teams[last'.gid].members, teams'[last'.gid].members) ]_vars

NoDuplicateUserId(members) ==
    \A i, j \in 1..Len(members) :
        members[i].userId = members[j].userId => i = j

\* the members after a role-only change of userID's entry
RoleChanged(pre, post, userID, role) ==
    /\ Len(post) = Len(pre)
    /\ \A i \in 1..Len(pre) :
          post[i] = IF pre[i].userId = userID
                    THEN [pre[i] EXCEPT !.role = role]
                    ELSE pre[i]

\* C4: with calls running one at a time, no members sequence of a Team or an
\* Organization ever holds two entries with the same userId, and AddMember
\* for a userId already in members changes that entry's role and appends
\* nothing.
C4_NoDuplicateMember ==
    /\ [](/\ \A o \in LiveOrgs : NoDuplicateUserId(orgs[o].members)
          /\ \A t \in LiveTeams : NoDuplicateUserId(teams[t].members))
    /\ [][ /\ (/\ last'.op = "AddOrganizationMember"
               /\ Has(orgs[last'.gid].members, last'.target))
              => RoleChanged(orgs[last'.gid].members, orgs'[last'.gid].members,
                             last'.target, last'.role)
           /\ (/\ last'.op = "AddTeamMember"
               /\ Has(teams[last'.gid].members, last'.target))
              => RoleChanged(teams[last'.gid].members, teams'[last'.gid].members,
                             last'.target, last'.role) ]_vars

\* an entry made by AddMember carries its inviter; the entry NewOrganization /
\* NewTeam makes for the creator carries none, so a call whose target holds
\* such an entry named a userId that was in members before the call
C4_Witness ==
    /\ last.op = "AddOrganizationMember"
    /\ last.target # last.actor
    /\ last.role = OrgRoleMember
    /\ LET m == orgs[last.gid].members
       IN  /\ Len(m) >= 2
           /\ \E i \in 1..Len(m) : /\ m[i].userId = last.target
                                   /\ m[i].invitedBy = None
                                   /\ m[i].role = last.role

\* the rule of RemoveMember as the claim states it
RemoveAllowed(members, actor, target) ==
    \/ Holds(members, actor, {OrgRoleOwner})
    \/ actor = target
    \/ (Holds(members, actor, {OrgRoleAdmin})
        /\ ~Holds(members, target, {OrgRoleOwner}))

\* C7: RemoveMember(target) by an actor takes effect only if the actor holds
\* Owner, or the actor is the target, or the actor holds Admin and the target
\* is not an Owner.
C7_RemoveOnlyWhenAllowed ==
    [][ /\ last'.op = "RemoveOrganizationMember"
           => RemoveAllowed(orgs[last'.gid].members, last'.actor, last'.target)
        /\ last'.op = "RemoveTeamMember"
           => RemoveAllowed(teams[last'.gid].members, last'.actor, last'.target) ]_vars

\* a denied call returns an error and the store it was given
Denied(r) ==
    /\ r.err # OK
    /\ r.orgs = orgs /\ r.teams = teams /\ r.users = users

\* in the current store, every AddMember, UpdateMember, UpdateGroupSettings
\* by an actor without Owner or Admin, and every DeleteGroup by an actor
\* without Owner, is denied
C8_LowRoleDenied ==
    /\ \A o \in LiveOrgs, actor \in Principals :
          LET m == orgs[o].members IN
          /\ ~Holds(m, actor, {OrgRoleOwner, OrgRoleAdmin}) =>
                /\ \A u \in Principals, r \in OrgRoles :
                      /\ Denied(AddOrganizationMember(orgs, teams, users, o, u, r, actor))
                      /\ Denied(UpdateOrganizationMember(orgs, teams, users, o, u, r, actor))
                /\ \A d \in Descriptions :
                      Denied(UpdateOrganization(orgs, teams, users, o, d, actor))
          /\ ~Holds(m, actor, {OrgRoleOwner}) =>
                Denied(DeleteOrganization(orgs, teams, users, o, actor))
    /\ \A t \in LiveTeams, actor \in Principals :
          LET m == teams[t].members IN
          /\ ~Holds(m, actor, {TeamRoleOwner, TeamRoleAdmin}) =>
                /\ \A u \in Principals, r \in TeamRoles :
                      /\ Denied(AddTeamMember(orgs, teams, users, t, u, r, actor))
                      /\ Denied(UpdateTeamMember(orgs, teams, users, t, u, r, actor))
                /\ \A d \in Descriptions :
                      Denied(UpdateTeam(orgs, teams, users, t, d, actor))
          /\ ~Holds(m, actor, {TeamRoleOwner}) =>
                Denied(DeleteTeam(orgs, teams, users, t, actor))

\* C8: AddMember, UpdateMember and UpdateGroupSettings take effect only when
\* the actor holds Owner or Admin in the group, DeleteGroup only when the
\* actor holds Owner; a call by any other actor is denied and leaves the
\* store unchanged.
C8_MinimumRole ==
    /\ []C8_LowRoleDenied
    /\ [][ /\ last'.op \in {"AddOrganizationMember", "UpdateOrganizationMember",
                            "UpdateOrganization"}
              => Holds(orgs[last'.gid].members, last'.actor,
                         {OrgRoleOwner, OrgRoleAdmin})
           /\ last'.op = "DeleteOrganization"
              => Holds(orgs[last'.gid].members, last'.actor, {OrgRoleOwner})
           /\ last'.op \in {"AddTeamMember", "UpdateTeamMember", "UpdateTeam"}
              => Holds(teams[last'.gid].members, last'.actor,
                         {TeamRoleOwner, TeamRoleAdmin})
           /\ last'.op = "DeleteTeam"
              => Holds(teams[last'.gid].members, last'.actor, {TeamRoleOwner}) ]_vars

\* an Admin's UpdateGroupSettings has taken effect while a Member of the same
\* group is there to be denied
C8_Witness ==
    /\ last.op = "UpdateOrganization"
    /\ orgs[last.gid].description = "d1"
    /\ Holds(orgs[last.gid].members, last.actor, {OrgRoleAdmin})
    /\ \E u \in Principals : Holds(orgs[last.gid].members, u, {OrgRoleMember})

\* the steps of CreateTeam and DeleteTeam; the reverse reference of the
\* creator is required in every case when unconditional holds, and only for
\* a creator with a User aggregate otherwise
TeamLifecycle(unconditional) ==
    /\ last'.op = "CreateTeam" =>
          LET t == last'.gid
              a == last'.actor
          IN  /\ teams'[t].st = "live"
              /\ Len(teams'[t].members) = 1
              /\ teams'[t].members[1].userId = a
              /\ teams'[t].members[1].role = TeamRoleOwner
              /\ t \in orgs'[teams'[t].organizationId].teamIds
              /\ (unconditional \/ users[a].st = "live") => t \in users'[a].teamIds
    /\ last'.op = "DeleteTeam" =>
          LET t == last'.gid
          IN  /\ teams'[t].st # "live"
              /\ \A o \in OrgIds : t \notin orgs'[o].teamIds
              /\ \A u \in MemberIds(teams[t].members) : t \notin users'[u].teamIds

RoleOf(members, userID) ==
    IF Has(members, userID)
    THEN members[CHOOSE i \in 1..Len(members) : members[i].userId = userID].role
    ELSE None

\* the roles of a, b, c, d in the scenario's organization
ScnRoles ==
    LET m == orgs[scn.o].members
    IN  << RoleOf(m, scn.a), RoleOf(m, scn.b), RoleOf(m, scn.c), RoleOf(m, scn.d) >>

\* C9: in the trace create O by A; A adds B as Admin; B adds C as Member;
\* B removes A; A changes A to Member; A adds D as Owner; A changes A to
\* Member - the calls succeed, are denied for lack of permission, are denied
\* with the last-owner reason, and succeed, as stated, and O ends with D as
\* Owner and A as Member.
C9_Scenario ==
    /\ scn.pc >= 1 => scn.res[1] = OK
    /\ scn.pc = 1 => ScnRoles = <<OrgRoleOwner, None, None, None>>
    /\ scn.pc >= 2 => scn.res[2] = OK
    /\ scn.pc = 2 => ScnRoles = <<OrgRoleOwner, OrgRoleAdmin, None, None>>
    /\ scn.pc >= 3 => scn.res[3] = OK
    /\ scn.pc \in 3..5 => ScnRoles = <<OrgRoleOwner, OrgRoleAdmin, OrgRoleMember, None>>
    /\ scn.pc >= 4 => scn.res[4] = ErrOrgRemovePerm
    /\ scn.pc >= 5 => scn.res[5] = ErrOrgLastOwnerRole
    /\ scn.pc >= 6 => scn.res[6] = OK
    /\ scn.pc = 6 => ScnRoles = <<OrgRoleOwner, OrgRoleAdmin, OrgRoleMember, OrgRoleOwner>>
    /\ scn.pc >= 7 => scn.res[7] = OK
    /\ scn.pc = 7 => ScnRoles = <<OrgRoleMember, OrgRoleAdmin, OrgRoleMember, OrgRoleOwner>>
    /\ scn.pc >= 1 => /\ orgs[scn.o].st = "live"
                      /\ NoDuplicateUserId(orgs[scn.o].members)

\* the scenario has run to its end
C9_Witness ==
    /\ scn.pc = 7
    /\ Len(scn.res) = 7
    /\ Len(orgs[scn.o].members) = 4

AllDone == \A p \in ProcIds : procs[p].pc = "done"

\* the entries userID has in members
EntriesOf(members, userID) ==
    {i \in 1..Len(members) : members[i].userId = userID}

\* C5: two AddTeamMember calls for the same user on the same Team, one with
\* role Viewer and one with role Admin, interleaved at the level of store
\* calls, end with exactly one entry for that user, with role Viewer or Admin.
C5_ConcurrentAddOneEntry ==
    (/\ AllDone
     /\ \A p \in ProcIds : procs[p].op = "AddTeamMember" /\ procs[p].err = OK
     /\ procs["p1"].gid = procs["p2"].gid
     /\ procs["p1"].target = procs["p2"].target
     /\ {procs["p1"].role, procs["p2"].role} = {TeamRoleViewer, TeamRoleAdmin})
    => LET m == teams[procs["p1"].gid].members
           e == EntriesOf(m, procs["p1"].target)
       IN  /\ Cardinality(e) = 1
           /\ \A i \in e : m[i].role \in {TeamRoleViewer, TeamRoleAdmin}

\* C6: while RemoveMember and UpdateMember calls on a group interleave, the
\* group has at least one Owner entry in every reachable state.
C6_OwnerInvariantInterleaved ==
    (\A p \in ProcIds :
        procs[p].op \in {None, "RemoveTeamMember", "UpdateTeamMember",
                         "RemoveOrganizationMember", "UpdateOrganizationMember"})
    => /\ \A o \in LiveOrgs :
             \E i \in 1..Len(orgs[o].members) : orgs[o].members[i].role = OrgRoleOwner
       /\ \A t \in LiveTeams :
             \E i \in 1..Len(teams[t].members) : teams[t].members[i].role = TeamRoleOwner

\* the teams that belong to organization o in the current store
TeamsOf(o) == {t \in TeamIds : teams[t].st = "live" /\ teams[t].organizationId = o}

\* C11: after a successful DeleteOrganization(O) with no store failure, every
\* Team whose organizationId is O has been deleted, no User's organizationIds
\* contains O, and no User's teamIds contains the id of a Team that belonged
\* to O.
C11_DeleteOrganizationCascade ==
    [][ last'.op = "DeleteOrganization" =>
          LET o == last'.gid IN
          /\ orgs'[o].st # "live"
          /\ \A t \in TeamsOf(o) : teams'[t].st # "live"
          /\ \A u \in UserIds : o \notin users'[u].organizationIds
          /\ \A u \in UserIds, t \in TeamsOf(o) : t \notin users'[u].teamIds ]_vars

\* an identity-created event with the four required fields
WellFormed(m) ==
    /\ m.typ = "user.created" /\ m.data = "object"
    /\ m.id # "" /\ m.email # "" /\ m.firstName # "" /\ m.lastName # ""

\* the deliveries handled so far that inserted a User document for id
InsertsFor(id) ==
    {j \in 1..inbox.pos :
        /\ inbox.msgs[j].id = id
        /\ \E k \in 1..Len(inbox.handled[j].calls) : inbox.handled[j].calls[k] = "InsertOne"}

EmailFree(m) ==
    ~\E u \in UserIds \ {m.id} : users[u].st = "live" /\ users[u].email = m.email

Malformed(m) == m.typ = "user.created" /\ ~WellFormed(m)

\* C19: when the consumer hands a malformed identity-created event to the
\* handler, the handler returns "invalid data format" or "missing required
\* fields" with no call on the User store, the User collection is unchanged
\* and no publish is started; the consumer then stands on the next message,
\* it never goes back, and every message position up to the consumer's has
\* been handed to the handler exactly once.
C19_MalformedRejected ==
    [][ /\ inbox'.pos >= inbox.pos
        /\ Len(inbox'.handled) = inbox'.pos
        /\ (inbox'.handled # inbox.handled /\ Malformed(inbox.msgs[inbox.pos + 1])) =>
              LET h == inbox'.handled[Len(inbox'.handled)] IN
              /\ h.handler
              /\ h.err = (IF inbox.msgs[inbox.pos + 1].data # "object"
                          THEN "invalid data format" ELSE "missing required fields")
              /\ h.calls = <<>>
              /\ ~h.started
              /\ users' = users
              /\ inbox'.pos = inbox.pos + 1 ]_vars

\* a malformed event was rejected and the next, well-formed, event was then
\* handled and its user created
C19_Witness ==
    /\ inbox.pos = 2
    /\ Malformed(inbox.msgs[1])
    /\ inbox.handled[1].err # OK
    /\ WellFormed(inbox.msgs[2])
    /\ inbox.handled[2].err = OK
    /\ users[inbox.msgs[2].id].st = "live"

\* C20: between calls, with no store call failing, the reverse references of
\* every User aggregate agree with the membership entries: an organization id
\* is in the user's organizationIds exactly when that organization exists and
\* has a members entry for the user, and a team id is in the user's teamIds
\* exactly when that team exists and has a members entry for the user.
C20_ReverseReferencesAgree ==
    \A u \in UserIds :
        users[u].st = "live" =>
            /\ \A o \in OrgIds :
                  o \in users[u].organizationIds <=>
                      (orgs[o].st = "live" /\ Has(orgs[o].members, u))
            /\ \A t \in TeamIds :
                  t \in users[u].teamIds <=>
                      (teams[t].st = "live" /\ Has(teams[t].members, u))

\* ---------------------------------------------------- store failures, events
\* the step in which the call in flight returns to its caller
Returns == call.pc = "return" /\ call'.pc = "idle"

\* the call in flight has made a store call of the class with the outcome
Logged(class, ok) ==
    \E i \in 1..Len(call.log) : call.log[i].class = class /\ call.log[i].ok = ok

\* the error values of the loads' not-found results and of the checks
Rejections == {ErrOrgNotFound, ErrTeamNotFound, ErrUserNotFound, ErrNoDocuments,
               ErrNotOrgMember,
               ErrOrgUpdatePerm, ErrOrgDeletePerm, ErrOrgAddPerm, ErrOrgUpdMemberPerm,
               ErrOrgOwnerOnly, ErrOrgLastOwnerRole, ErrOrgMemberNotFound,
               ErrOrgRemovePerm, ErrOrgLastOwnerRemove,
               ErrTeamUpdatePerm, ErrTeamDeletePerm, ErrTeamAddPerm, ErrTeamUpdMemberPerm,
               ErrTeamOwnerOnly, ErrTeamLastOwnerRole, ErrTeamMemberNotFound,
               ErrTeamRemovePerm, ErrTeamLastOwnerRemove}

\* C13: a call that ends with a permission, last-owner, not-found or
\* precondition error has made no store call; from the step that takes the
\* request to the step that returns the error the organizations, the teams
\* and the users are unchanged, no publish goroutine is started and no
\* message of the call is handed to the producer.
C13_RejectedCallWritesNothing ==
    [][ /\ (call.pc = "idle" /\ call'.pc = "return" /\ call'.err \in Rejections) =>
              /\ orgs' = orgs /\ teams' = teams /\ users' = users
              /\ call'.log = <<>> /\ call'.todo = <<>>
              /\ bus' = bus
        /\ (Returns /\ call.err \in Rejections) =>
              /\ orgs' = orgs /\ teams' = teams /\ users' = users
              /\ call.log = <<>>
              /\ last'.err = call.err
              /\ bus' = bus
              /\ ~\E g \in bus.spawned : g.n = call.n
              /\ ~\E e \in bus.produced : e.n = call.n ]_vars

\* AddTeamMember by a member without the role was rejected
C13_Witness ==
    /\ last.op = "AddTeamMember"
    /\ last.err = "insufficient permissions to add team member"
    /\ nops = 1
    /\ bus = EmptyBus

\* C14: when the write on the group aggregate fails, the call returns the
\* store's error, it has made no call on a User's reverse references, and it
\* starts no publish goroutine and hands no message to the producer.
C14_GroupWriteFailure ==
    [][ (Returns /\ Logged("group", FALSE)) =>
              /\ call.err = ErrStore
              /\ last'.err = ErrStore
              /\ ~Logged("reverse", TRUE) /\ ~Logged("reverse", FALSE)
              /\ users' = users
              /\ bus' = bus
              /\ ~\E g \in bus.spawned : g.n = call.n
              /\ ~\E e \in bus.produced : e.n = call.n ]_vars

\* the members write of AddOrganizationMember failed
C14_Witness ==
    /\ call.pc = "return"
    /\ call.op = "AddOrganizationMember"
    /\ Len(call.log) = 1
    /\ call.log[1].class = "group" /\ ~call.log[1].ok
    /\ call.err = ErrStore

\* the group write of the call in flight is in the store
GroupWriteKept ==
    CASE call.op \in {"CreateOrganization", "UpdateOrganization"} ->
            orgs'[call.gid].st = "live"
      [] call.op \in {"CreateTeam", "UpdateTeam"} -> teams'[call.gid].st = "live"
      [] call.op = "DeleteOrganization" -> orgs'[call.gid].st = "deleted"
      [] call.op = "DeleteTeam" -> teams'[call.gid].st = "deleted"
      [] call.op \in {"AddOrganizationMember", "UpdateOrganizationMember"} ->
            Holds(orgs'[call.gid].members, call.target, {call.role})
      [] call.op \in {"AddTeamMember", "UpdateTeamMember"} ->
            Holds(teams'[call.gid].members, call.target, {call.role})
      [] call.op = "RemoveOrganizationMember" ->
            ~Has(orgs'[call.gid].members, call.target)
      [] call.op = "RemoveTeamMember" ->
            ~Has(teams'[call.gid].members, call.target)

\* the call in flight returns after a group write that succeeded and a write
\* to a User's organizationIds / teamIds, or to the Organization's teamIds,
\* that failed
ReturnsAfterReverseFailure ==
    /\ Returns
    /\ Logged("group", TRUE)
    /\ Logged("reverse", FALSE) \/ Logged("parent", FALSE)

\* what the call does then: it returns success, the group write is in the
\* store, and it starts one publish goroutine for its event; unlessRefresh
\* allows the goroutine to return without publishing when the re-read of
\* the group failed
AfterReverseFailure(unlessRefresh) ==
    /\ call.err = OK
    /\ last'.err = OK
    /\ GroupWriteKept
    /\ \E g \in bus'.spawned \ bus.spawned :
          /\ bus'.spawned = bus.spawned \cup {g}
          /\ g.n = call.n
          /\ g.skip => (unlessRefresh /\ Logged("refresh", FALSE))

C16_ReturnBeforePublish ==
    [][ /\ Returns =>
              /\ last'.err = call.err
              /\ ~\E e \in bus'.produced : e.n = call.n
              /\ call.err = OK => \E g \in bus'.spawned : g.n = call.n
        /\ bus'.spawned # bus.spawned /\ ~Returns =>
              /\ last' = last
              /\ orgs' = orgs /\ teams' = teams /\ users' = users
              /\ call' = call /\ nops' = nops ]_vars

\* a call returned nil and the producer then refused its message
C16_Witness ==
    /\ nops = 1
    /\ last.err = OK
    /\ last.op = "RemoveOrganizationMember"
    /\ \E e \in bus.produced : e.n = 1 /\ ~e.ok

\* C17: in every call the write on the group aggregate has succeeded before
\* any write to a User's reverse references is made; a publish goroutine is
\* started only by the returning step of a call whose group write succeeded,
\* after all its store calls; and every message handed to the producer comes
\* from such a goroutine.
C17_WriteOrder ==
    [][ /\ \A i \in 1..Len(call'.log) :
              call'.log[i].class = "reverse" =>
                  \E j \in 1..(i-1) : call'.log[j].class = "group" /\ call'.log[j].ok
        /\ \A g \in bus'.spawned \ bus.spawned :
              /\ Returns
              /\ call.todo = <<>>
              /\ Logged("group", TRUE)
              /\ g.n = call.n
        /\ \A e \in bus'.produced \ bus.produced :
              \E g \in bus.spawned : g.n = e.n /\ g.typ = e.typ /\ ~g.skip ]_vars

\* DeleteTeam: the team deleted, its members' teamIds cleared, the event
\* handed to the producer
C17_Witness ==
    /\ teams["t1"].st = "deleted"
    /\ \A u \in UserIds : "t1" \notin users[u].teamIds
    /\ \E e \in bus.produced : e.typ = "team.deleted" /\ e.subject = "t1"

\* C18: a call that returns success starts one publish goroutine, and every
\* goroutine that ends has handed one message to the producer, with the event
\* type of its call and the group's id as subject, also when the re-read of
\* the group failed.
C18_OnePublishPerCall ==
    [][ /\ (Returns /\ call.err = OK) =>
              \E g \in bus'.spawned :
                  /\ bus'.spawned = bus.spawned \cup {g}
                  /\ g \notin bus.spawned
                  /\ g.n = call.n /\ g.typ = EventTypeOf(call.op) /\ g.subject = call.gid
        /\ \A g \in bus.spawned \ bus'.spawned :
              \E ok \in BOOLEAN :
                  /\ Envelope(g, ok) \notin bus.produced
                  /\ bus'.produced = bus.produced \cup {Envelope(g, ok)} ]_vars

\* C21: UpdateMember and RemoveMember take effect only on a user who has an
\* entry in the group's members: a call naming a user without an entry
\* returns an error and leaves the store as it was, so that no such call is
\* a step, and UpdateMember never makes members longer.
C21_AbsentTargetRejected ==
    [][ /\ nops' = nops + 1 =>
              /\ last'.op \in {"UpdateOrganizationMember", "RemoveOrganizationMember"} =>
                    Has(orgs[last'.gid].members, last'.target)
              /\ last'.op \in {"UpdateTeamMember", "RemoveTeamMember"} =>
                    Has(teams[last'.gid].members, last'.target)
              /\ last'.op = "UpdateOrganizationMember" =>
                    Len(orgs'[last'.gid].members) = Len(orgs[last'.gid].members)
              /\ last'.op = "UpdateTeamMember" =>
                    Len(teams'[last'.gid].members) = Len(teams[last'.gid].members) ]_vars

\* ------------------------------------------- the members array in full
\* The repositories' AddMember and RemoveMember on one group document whose
\* members entries carry all four fields; time.Now() is a clock that
\* advances with every call.
MaxClock == 4

MemberEntry(userID, role, joinedAt, invitedBy) ==
    [userId |-> userID, role |-> role, joinedAt |-> joinedAt,
     invitedBy |-> invitedBy]

\* the document Create inserts: the creator is the one member, an owner
CreatedDocument(creator) ==
    [NoDocument EXCEPT !.members = <<MemberEntry(creator, OrgRoleOwner, 0, None)>>]

\* variant: the entry is pulled and pushed again
RepositoryAddMember_Upsert(doc, userID, role, invitedBy, now) ==
    [doc EXCEPT
        !.members = Append(PullMember(doc.members, userID),
                           MemberEntry(userID, role, now, invitedBy)),
        !.updatedAt = now]

\* CountDocuments {_id, members.userId}; then $set members.$.role and
\* updatedAt when an entry matched, else $push of a new entry and $set
\* updatedAt
RepositoryAddMember(doc, userID, role, invitedBy, now) ==
    IF IsMember(doc.members, userID)
    THEN [doc EXCEPT !.members = SetFirstRole(doc.members, userID, role),
                     !.updatedAt = now]
    ELSE [doc EXCEPT !.members = Append(doc.members,
                                        MemberEntry(userID, role, now, invitedBy)),
                     !.updatedAt = now]

\* $pull members {userId} and $set updatedAt
RepositoryRemoveMember(doc, userID, now) ==
    [doc EXCEPT !.members = PullMember(doc.members, userID),
                !.updatedAt = now]

InitRepo ==
    /\ orgs = [o \in OrgIds |-> AbsentOrg]
    /\ teams = [t \in TeamIds |-> AbsentTeam]
    /\ users = [u \in UserIds |-> AbsentUser]
    /\ last = NoCall
    /\ nops = 0
    /\ procs = [p \in ProcIds |-> IdleProc]
    /\ scn = NoScenario
    /\ call = NoFacadeCall
    /\ bus = EmptyBus
    /\ inbox = NoInbox
    /\ query = NoQuery
    /\ \E creator \in {"A", "B"} : repo = CreatedDocument(creator)

AddMemberCall ==
    /\ repo.now < MaxClock
    /\ \E userID \in {"A", "B", "C"}, role \in OrgRoles, invitedBy \in {"A", "B"} :
          repo' = [RepositoryAddMember(repo, userID, role, invitedBy, repo.now + 1)
                   EXCEPT !.now = repo.now + 1,
                          !.op = "AddMember",
                          !.arg = [userId |-> userID, role |-> role,
                                   invitedBy |-> invitedBy],
                          !.matched = IsMember(repo.members, userID)]
    /\ UNCHANGED <<orgs, teams, users, last, nops, procs, scn, call, bus, inbox, query>>

RemoveMemberCall ==
    /\ repo.now < MaxClock
    /\ \E userID \in {"A", "B", "C"} :
          repo' = [RepositoryRemoveMember(repo, userID, repo.now + 1)
                   EXCEPT !.now = repo.now + 1,
                          !.op = "RemoveMember",
                          !.arg = [NoArg EXCEPT !.userId = userID],
                          !.matched = IsMember(repo.members, userID)]
    /\ UNCHANGED <<orgs, teams, users, last, nops, procs, scn, call, bus, inbox, query>>

NextRepo ==
    \/ AddMemberCall
    \/ RemoveMemberCall

SpecRepo == InitRepo /\ [][NextRepo]_vars

\* C22: a role change of an existing member (the repository's AddMember on a
\* userId that has an entry, which is also what UpdateMember calls) changes
\* only that entry's role and the document's updatedAt: the array keeps its
\* length and order, every entry keeps its userId, joinedAt and invitedBy,
\* every other entry is unchanged; an entry stamped with the time of the call
\* belongs to a user who had no entry before the call.
C22_RoleChangeOnly ==
    [][ /\ (repo'.op = "AddMember" /\ repo'.now # repo.now
                /\ Has(repo.members, repo'.arg.userId)) =>
              /\ Len(repo'.members) = Len(repo.members)
              /\ \A i \in 1..Len(repo.members) :
                    /\ repo'.members[i].userId = repo.members[i].userId
                    /\ repo'.members[i].joinedAt = repo.members[i].joinedAt
                    /\ repo'.members[i].invitedBy = repo.members[i].invitedBy
                    /\ repo.members[i].userId # repo'.arg.userId =>
                          repo'.members[i] = repo.members[i]
              /\ \E i \in 1..Len(repo.members) :
                    /\ repo'.members[i].userId = repo'.arg.userId
                    /\ repo'.members[i].role = repo'.arg.role
              /\ repo'.updatedAt = repo'.now
        /\ repo'.now # repo.now =>
              \A i \in 1..Len(repo'.members) :
                  repo'.members[i].joinedAt = repo'.now =>
                      ~Has(repo.members, repo'.members[i].userId) ]_vars

\* a role change of the second of two members, made by a caller other than
\* the one who invited that member
C22_Witness ==
    /\ repo.op = "AddMember"
    /\ repo.matched
    /\ Len(repo.members) >= 2
    /\ repo.members[2].userId = repo.arg.userId
    /\ repo.members[2].role = repo.arg.role
    /\ repo.members[2].invitedBy # repo.arg.invitedBy
    /\ repo.members[2].joinedAt < repo.now

\* the arguments of the store calls of the class that the call c has made or
\* has yet to make
Covered(c, class) ==
    {c.log[i].arg : i \in {j \in 1..Len(c.log) : c.log[j].class = class}}
    \cup {c.todo[i].arg : i \in {j \in 1..Len(c.todo) : c.todo[j].class = class}}

\* C23: in DeleteOrganization a failed delete of a child team does not stop
\* the operation.  Until the organization's own delete is made, every team of
\* the organization and every member has its store call made or still to
\* come; the step in which a team's delete fails leaves the rest of the calls
\* in place and sets no error; and when a call in which a team's delete failed
\* returns, the organization's own delete has been made, the call returns an
\* error exactly when that delete failed, and when it succeeded the
\* organization is deleted, every team whose delete succeeded is deleted and
\* every member whose reverse-reference call succeeded no longer has the
\* organization in organizationIds.
C23_ChildFailureTolerated ==
    [][ /\ (call'.op = "DeleteOrganization" /\ call'.err = OK /\ call'.pc # "idle"
                /\ ~\E i \in 1..Len(call'.log) : call'.log[i].class = "group") =>
              /\ orgs'[call'.gid].teamIds \subseteq Covered(call', "child")
              /\ \A i \in 1..Len(orgs'[call'.gid].members) :
                    orgs'[call'.gid].members[i].userId \in Covered(call', "reverse")
        /\ (call.op = "DeleteOrganization" /\ call.pc = "store"
                /\ Head(call.todo).class = "child"
                /\ Len(call'.log) = Len(call.log) + 1
                /\ ~call'.log[Len(call'.log)].ok) =>
              /\ call'.todo = Tail(call.todo)
              /\ call'.err = OK
              /\ call'.pc = "store"
        /\ (Returns /\ call.op = "DeleteOrganization" /\ Logged("child", FALSE)) =>
              /\ Logged("group", TRUE) \/ Logged("group", FALSE)
              /\ call.err = OK <=> Logged("group", TRUE)
              /\ last'.err = call.err
              /\ Logged("group", TRUE) =>
                    /\ orgs'[call.gid].st = "deleted"
                    /\ \A i \in 1..Len(call.log) :
                          /\ (call.log[i].class = "child" /\ call.log[i].ok) =>
                                teams'[call.log[i].arg].st = "deleted"
                          /\ (call.log[i].class = "reverse" /\ call.log[i].ok) =>
                                call.gid \notin users'[call.log[i].arg].organizationIds ]_vars

\* DeleteOrganization of an organization with two teams and three members:
\* the delete of the first team failed, the second team, the organization and
\* the three reverse references were written, and the call is about to return
\* nil
C23_Witness ==
    /\ call.pc = "return"
    /\ call.op = "DeleteOrganization"
    /\ call.err = OK
    /\ Len(call.log) = 6
    /\ call.log[1].class = "child" /\ ~call.log[1].ok
    /\ call.log[2].class = "child" /\ call.log[2].ok
    /\ \A i \in 3..6 : call.log[i].ok
    /\ teams[call.log[1].arg].st = "live"
    /\ teams[call.log[2].arg].st = "deleted"
    /\ orgs[call.gid].st = "deleted"
    /\ \A u \in UserIds : call.gid \notin users[u].organizationIds

\* ------------------------------------------------------------ list methods
MaxPage == 3

\* "if page < 1 { page = 1 }; if limit < 1 || limit > 100 { limit = 20 }"
Paginate(page, limit) ==
    [page |-> IF page < 1 THEN 1 ELSE page,
     limit |-> IF limit < 1 \/ limit > 100 THEN 20 ELSE limit]

InitList ==
    /\ orgs = ConcStore.orgs
    /\ teams = ConcStore.teams
    /\ users = ConcStore.users
    /\ last = NoCall
    /\ nops = 0
    /\ procs = [p \in ProcIds |-> IdleProc]
    /\ scn = NoScenario
    /\ call = NoFacadeCall
    /\ bus = EmptyBus
    /\ inbox = NoInbox
    /\ repo = NoDocument
    /\ query = NoQuery

\* GetTeamsByOrganization, GetTeamsByUser, GetOrganizationsByUser,
\* ListOrganizations, GetUsers: the page and limit are normalised and the
\* repository method of the same name is called with them
ListCall ==
    \E op \in {"GetTeamsByOrganization", "GetTeamsByUser", "GetOrganizationsByUser",
               "ListOrganizations", "GetUsers"},
       page \in -1..MaxPage, limit \in {-1, 0, 1, 20, 100, 101} :
        /\ query' = [op |-> op, page |-> page, limit |-> limit, called |-> TRUE,
                     storePage |-> Paginate(page, limit).page,
                     storeLimit |-> Paginate(page, limit).limit]
        /\ UNCHANGED <<orgs, teams, users, last, nops, procs, scn, call, bus, inbox, repo>>

\* GetOrganizationTeams: the organization is loaded, the caller must be a
\* member, and teamRepo.GetTeamsByOrganization is called with the page and
\* limit as given
GetOrganizationTeamsCall ==
    \E orgID \in OrgIds, userID \in UserIds,
       page \in -1..MaxPage, limit \in {-1, 0, 1, 20, 100, 101} :
        /\ query' = [op |-> "GetOrganizationTeams", page |-> page, limit |-> limit,
                     called |-> OrgRepoFound(orgs, orgID) /\ IsMember(orgs[orgID].members, userID),
                     storePage |-> page, storeLimit |-> limit]
        /\ UNCHANGED <<orgs, teams, users, last, nops, procs, scn, call, bus, inbox, repo>>

NextList ==
    \/ ListCall
    \/ GetOrganizationTeamsCall

SpecList == InitList /\ [][NextList]_vars

\* C24: whenever a list method calls the store, it does so with page >= 1
\* and 1 <= limit <= 100, and with the limit it was given when that limit is
\* within 1..100.
C24_PageAndLimitInRange ==
    query.called =>
        /\ query.storePage >= 1
        /\ query.storeLimit >= 1 /\ query.storeLimit <= 100
        /\ (query.limit >= 1 /\ query.limit <= 100) => query.storeLimit = query.limit

\* C25: the save of UpdateOrganization and of UpdateTeam leaves the members
\* of the group as they are in the store at that moment, whatever the other
\* calls in flight have written since the update loaded the group.
C25_UpdateKeepsMembers ==
    [][ \A p \in ProcIds :
          /\ (procs[p].op = "UpdateOrganization" /\ procs[p].pc = "save"
                  /\ procs'[p].pc = "done") =>
                orgs'[procs[p].gid].members = orgs[procs[p].gid].members
          /\ (procs[p].op = "UpdateTeam" /\ procs[p].pc = "save"
                  /\ procs'[p].pc = "done") =>
                teams'[procs[p].gid].members = teams[procs[p].gid].members ]_vars

\* the users who have an Owner entry in the members
OwnersIn(members) == {u \in UserIds : Holds(members, u, {"owner"})}

\* C26: an AddMember or UpdateMember call made by an actor who is not an
\* Owner of the group at the time of the call adds no user to the set of the
\* group's Owners.
C26_OnlyOwnerGrantsOwner ==
    [][ nops' = nops + 1 =>
          /\ (last'.op \in {"AddOrganizationMember", "UpdateOrganizationMember"}
                  /\ ~Holds(orgs[last'.gid].members, last'.actor, {"owner"})) =>
                OwnersIn(orgs'[last'.gid].members) \subseteq OwnersIn(orgs[last'.gid].members)
          /\ (last'.op \in {"AddTeamMember", "UpdateTeamMember"}
                  /\ ~Holds(teams[last'.gid].members, last'.actor, {"owner"})) =>
                OwnersIn(teams'[last'.gid].members) \subseteq OwnersIn(teams[last'.gid].members) ]_vars

\* C27: every user with an entry in the members of a team has an entry in the
\* members of the organization the team belongs to.
C27_TeamMembersInOrganization ==
    \A t \in TeamIds :
        (teams[t].st = "live" /\ teams[t].organizationId \in OrgIds
            /\ orgs[teams[t].organizationId].st = "live") =>
            \A u \in UserIds :
                Has(teams[t].members, u) => Has(orgs[teams[t].organizationId].members, u)

\* ----------------------------------------------- facade calls and their events
\* Facade calls made one after the other, each run to its return, and the
\* publish goroutines they started, which run at any later time.
MaxSent == 2

InitSent ==
    /\ orgs = ConcStore.orgs
    /\ teams = ConcStore.teams
    /\ users = ConcStore.users
    /\ last = NoCall
    /\ nops = 0
    /\ procs = [p \in ProcIds |-> IdleProc]
    /\ scn = NoScenario
    /\ call = NoFacadeCall
    /\ bus = EmptyBus
    /\ inbox = NoInbox
    /\ query = NoQuery
    /\ repo = NoDocument

\* a handler from its load to its return: the writes, then "go func" with
\* the event of the call, then "return nil"
CallAndSpawn ==
    /\ nops < MaxSent
    /\ \E op \in {"UpdateOrganization", "UpdateOrganizationMember",
                  "RemoveOrganizationMember", "UpdateTeam", "RemoveTeamMember"},
          actor \in {"A"}, target \in {"B", "C"}, role \in {"admin"} :
          LET gid == IF op \in {"UpdateTeam", "RemoveTeamMember"} THEN "t1" ELSE "o1"
              r == CASE op = "UpdateOrganization" ->
                            UpdateOrganization(orgs, teams, users, gid, "d1", actor)
                     [] op = "UpdateOrganizationMember" ->
                            UpdateOrganizationMember(orgs, teams, users, gid, target, role, actor)
                     [] op = "RemoveOrganizationMember" ->
                            RemoveOrganizationMember(orgs, teams, users, gid, target, actor)
                     [] op = "UpdateTeam" ->
                            UpdateTeam(orgs, teams, users, gid, "d1", actor)
                     [] op = "RemoveTeamMember" ->
                            RemoveTeamMember(orgs, teams, users, gid, target, actor)
          IN  /\ r.err = OK
              /\ orgs' = r.orgs
              /\ teams' = r.teams
              /\ users' = r.users
              /\ last' = [op |-> op, gid |-> gid, actor |-> actor, target |-> target,
                          role |-> role, err |-> OK]
              /\ nops' = nops + 1
              /\ bus' = [bus EXCEPT !.spawned =
                            @ \cup {Goroutine(nops + 1, EventTypeOf(op), gid, FALSE)}]
    /\ UNCHANGED <<procs, scn, call, inbox, repo, query>>

NextSent ==
    \/ CallAndSpawn
    \/ publish

SpecSent == InitSent /\ [][NextSent]_vars

\* C28: when the message of a call on a group is handed to the producer, no
\* earlier call on the same group (one that returned before this call was
\* made) still has its message waiting in a goroutine that has not run.
C28_EventsInCommitOrder ==
    [][ \A e \in bus'.produced \ bus.produced :
            ~\E g \in bus'.spawned :
                g.subject = e.subject /\ g.n < e.n /\ ~g.skip ]_vars

\* C29: when a DeleteTeam and an AddTeamMember of the same team have both
\* returned, the DeleteTeam with success, either the team still exists or no
\* user has the team in teamIds.
C29_NoReferenceToDeletedTeam ==
    \A p, q \in ProcIds :
        (procs[p].op = "DeleteTeam" /\ procs[p].pc = "done" /\ procs[p].err = OK
            /\ procs[q].op = "AddTeamMember" /\ procs[q].pc = "done"
            /\ procs[q].gid = procs[p].gid) =>
            \/ teams[procs[p].gid].st = "live"
            \/ \A u \in UserIds : procs[p].gid \notin users[u].teamIds

\* ------------------------------------------------------------- DeleteUser
StatusInactive == "inactive"

\* number of DeleteUser calls in one run
MaxDeletes == 2

\* variant: the document is removed from the collection
UserRepoDelete_Remove(usersV, id) ==
    IF UserRepoFound(usersV, id)
    THEN [usersV EXCEPT ![id] = [AbsentUser EXCEPT !.st = "deleted"]]
    ELSE usersV

\* UserRepository.Delete: $set status Inactive and updatedAt
UserRepoDelete(usersV, id) ==
    IF UserRepoFound(usersV, id)
    THEN [usersV EXCEPT ![id].status = StatusInactive]
    ELSE usersV

DeleteUser(orgsV, teamsV, usersV, id) ==
    IF ~UserRepoFound(usersV, id)
    THEN Res(ErrUserNotFound, orgsV, teamsV, usersV)
    ELSE Res(OK, orgsV, teamsV, UserRepoDelete(usersV, id))

InitDelete ==
    /\ orgs = ConcStore.orgs
    /\ teams = ConcStore.teams
    /\ users = ConcStore.users
    /\ last = NoCall
    /\ nops = 0
    /\ procs = [p \in ProcIds |-> IdleProc]
    /\ scn = NoScenario
    /\ call = NoFacadeCall
    /\ bus = EmptyBus
    /\ inbox = NoInbox
    /\ query = NoQuery
    /\ repo = NoDocument

\* UserService.DeleteUser from its load to its return
DeleteUserCall ==
    /\ nops < MaxDeletes
    /\ \E id \in {"A", "B", "D"} :
          LET r == DeleteUser(orgs, teams, users, id) IN
          /\ r.err = OK
          /\ orgs' = r.orgs
          /\ teams' = r.teams
          /\ users' = r.users
          /\ last' = [op |-> "DeleteUser", gid |-> None, actor |-> None, target |-> id,
                      role |-> None, err |-> OK]
          /\ nops' = nops + 1
          /\ bus' = [bus EXCEPT !.spawned =
                        @ \cup {Goroutine(nops + 1, "user.deleted", id, FALSE)}]
    /\ UNCHANGED <<procs, scn, call, inbox, repo, query>>

\* the bus delivers the identity-created event of a user once more
Redeliver ==
    /\ Len(inbox.msgs) < MaxMsgs
    /\ \E u \in {"A", "B", "D"} :
          inbox' = [inbox EXCEPT !.msgs =
                       Append(@, [typ |-> UserCreated, data |-> "object", id |-> u,
                                  email |-> EmailOf(u), firstName |-> "Ann",
                                  lastName |-> "Lee"])]
    /\ UNCHANGED <<orgs, teams, users, last, nops, procs, scn, call, bus, repo, query>>

NextDelete ==
    \/ DeleteUserCall
    \/ Redeliver
    \/ consume
    \/ publish

SpecDelete == InitDelete /\ [][NextDelete]_vars

\* C30: DeleteUser sets the status of the user's record to Inactive and
\* changes nothing else: the record stays in the collection with its
\* organizationIds and teamIds, the other users, the organizations and the
\* teams with their members are unchanged.  The identity-created event of a
\* user whose record is Inactive changes nothing when it is processed: no
\* record is inserted, the status stays Inactive, and no goroutine is started.
C30_DeleteUserIsStatusFlip ==
    [][ /\ (nops' = nops + 1 /\ last'.op = "DeleteUser") =>
              /\ users'[last'.target].st = "live"
              /\ users'[last'.target].status = "inactive"
              /\ users'[last'.target] = [users[last'.target] EXCEPT !.status = "inactive"]
              /\ \A v \in UserIds \ {last'.target} : users'[v] = users[v]
              /\ orgs' = orgs
              /\ teams' = teams
        /\ (inbox'.pos = inbox.pos + 1
                /\ inbox.msgs[inbox'.pos].typ = "user.created"
                /\ inbox.msgs[inbox'.pos].id \in UserIds
                /\ users[inbox.msgs[inbox'.pos].id].st = "live"
                /\ users[inbox.msgs[inbox'.pos].id].status = "inactive") =>
              /\ users' = users
              /\ orgs' = orgs
              /\ teams' = teams
              /\ bus'.spawned = bus.spawned
              /\ inbox'.handled[inbox'.pos].err = "nil" ]_vars

\* A, an owner of the organization and of its team, was deleted; the
\* identity-created event of A was then delivered and processed; A's record
\* is Inactive with its organizationIds and teamIds, and A is still an owner
C30_Witness ==
    /\ last.op = "DeleteUser" /\ last.target = "A"
    /\ nops = 1
    /\ inbox.pos = 1
    /\ inbox.msgs[1].id = "A"
    /\ inbox.handled[1].calls = <<"GetByUserId">>
    /\ users["A"].st = "live"
    /\ users["A"].status = "inactive"
    /\ users["A"].organizationIds = {"o1"}
    /\ users["A"].teamIds = {"t1"}
    /\ Holds(orgs["o1"].members, "A", {"owner"})
    /\ Holds(teams["t1"].members, "A", {"owner"})

====
